---- MODULE Spec2Model ----
(***************************************************************************)
(* Model of the PDF search tool (src/pdfserch4.py): the search coordinator *)
(* main_processor, its file tasks _worker_search_file running in a bounded *)
(* thread pool, and the Tk application PdfSearchApp that starts runs,      *)
(* requests cancellation and drains the UI queue.                          *)
(*                                                                         *)
(* Text is a sequence of one-character strings; offsets are 0-based as in  *)
(* Python, so text[i] of the source is text[i + 1] here.                   *)
(***************************************************************************)
EXTENDS Integers, Sequences, FiniteSets, TLC

\* ------------------------------------------------------------- bounds
\* Number of PDF files in the target folder.
NumFiles == 3
\* Number of times the Run button is pressed in one behaviour of SpecApp.
MaxRuns == 2
\* Longest page text _find_matches_in_text is called with on its own.
MaxTextLen == 3
\* _make_snippet on its own: the most characters before and after the match
\* in the page text, and the longest match.
MaxBefore == 32
MaxAfter == 32
MaxMatch == 2
\* Most object headers in a document given to the object scan on its own.
MaxObjects == 3

\* ---------------------------------------------------- program constants
\* _make_snippet(text, span, context: int = 30)
DefaultContext == 30
\* start = max(0, match_idx - 10) of the earlier versions of the tool
FixedLookBack == 10
\* max_workers = max(2, min(32, (os.cpu_count() or 4) * 2))
MinWorkers == 2
MaxWorkers == 32
FallbackCpus == 4

Files == 1 .. NumFiles
Runs == 1 .. MaxRuns

\* os.cpu_count() of the machine: None (0 here) or a core count.
CpuCounts == {0, 1}

\* ------------------------------------------------------------ the disk
\* What extract_text_per_page_fast recovers from each file of the folder:
\* file 2 cannot be opened (open / mmap raises), the others yield page texts.
Str_Iaaa == <<"U+0130", "a", "a", "a">>
Str_Aa_b == <<"A", "a", "\n", "b">>
Str_aa == <<"a", "a">>
Str_baab == <<"b", "a", "A", "b">>

Readable(f) == f # 2

PagesOnDisk(f) ==
    CASE f = 1 -> <<Str_Iaaa, Str_Aa_b>>
      [] f = 2 -> <<>>
      [] f = 3 -> <<<<>>, Str_aa>>
      [] OTHER -> <<Str_baab>>

\* Search strings the user may have typed: nothing, "aa", "(" (which is a
\* malformed regular expression), "a*?" (as a regular expression it matches
\* the empty string first) and "a.*A" (as a regular expression it would
\* match from the end of page 1 of file 1 into its page 2).
SearchTexts == {<<>>, <<"a", "a">>, <<"(">>, <<"a", "*", "?">>, <<"a", ".", "*", "A">>}

\* ------------------------------------------------------- text helpers
Max(a, b) == IF a >= b THEN a ELSE b
Min(a, b) == IF a <= b THEN a ELSE b

\* str.lower() of one character. "U+0130" stands for the one character whose
\* lower-case form is two characters long (LATIN CAPITAL LETTER I WITH DOT
\* ABOVE: "i" followed by the combining dot "U+0307").
LowerChar(c) ==
    CASE c = "A" -> <<"a">>
      [] c = "B" -> <<"b">>
      [] c = "X" -> <<"x">>
      [] c = "U+0130" -> <<"i", "U+0307">>
      [] OTHER -> <<c>>

\* str.lower(): the lower-case forms, concatenated.
RECURSIVE Lower(_)
Lower(s) == IF s = <<>> THEN <<>> ELSE LowerChar(Head(s)) \o Lower(Tail(s))

\* text[a:b] for 0 <= a, b <= len(text).
Slice(text, a, b) == IF b <= a THEN <<>> ELSE SubSeq(text, a + 1, b)

\* text.find(pat, from): least offset >= from where pat occurs, else -1.
Find(text, pat, from) ==
    LET cands == {i \in from .. (Len(text) - Len(pat)) :
                     Slice(text, i, i + Len(pat)) = pat}
    IN IF cands = {} THEN -1
       ELSE CHOOSE i \in cands : \A j \in cands : i <= j

\* ------------------------------------------------------ pattern layer
NoPattern == [kind |-> "none"]
CompileError == [kind |-> "re.error"]

\* The regular expressions modelled: literal characters and "." (any
\* character but a newline), each optionally followed by a quantifier "*"
\* or "?" and then by "?" (the lazy form); and the malformed ones re.compile
\* rejects: a parenthesis left open or never opened, a quantifier with
\* nothing to repeat, a quantifier repeated.
QuantAt(s, i) == IF i <= Len(s) /\ s[i] \in {"*", "?"} THEN s[i] ELSE "1"
LazyAt(s, i) == QuantAt(s, i) # "1" /\ i < Len(s) /\ s[i + 1] = "?"
AtomEnd(s, i) ==
    i + 1 + (IF QuantAt(s, i + 1) # "1" THEN 1 ELSE 0)
          + (IF LazyAt(s, i + 1) THEN 1 ELSE 0)

RECURSIVE SyntaxOkFrom(_, _)
SyntaxOkFrom(s, i) ==
    IF i > Len(s) THEN TRUE
    ELSE IF s[i] \in {"(", ")", "*", "?"} THEN FALSE
    ELSE SyntaxOkFrom(s, AtomEnd(s, i))

RegexSyntaxOk(search_text) == SyntaxOkFrom(search_text, 1)

\* The compiled form: one atom per character, with its quantifier.
RECURSIVE ParseAtoms(_, _)
ParseAtoms(s, i) ==
    IF i > Len(s) THEN <<>>
    ELSE <<[ch |-> s[i], quant |-> QuantAt(s, i + 1), lazy |-> LazyAt(s, i + 1)]>>
         \o ParseAtoms(s, AtomEnd(s, i))

\* The matcher's case folding with re.IGNORECASE: one character to one
\* character (U+0130 folds to "i").
FoldChar(c) ==
    CASE c = "A" -> "a"
      [] c = "B" -> "b"
      [] c = "X" -> "x"
      [] c = "U+0130" -> "i"
      [] OTHER -> c

\* Does the atom match the character c?
AtomMatches(atom, c, ignorecase) ==
    IF atom.ch = "." THEN c # "\n"
    ELSE IF ignorecase THEN FoldChar(atom.ch) = FoldChar(c)
    ELSE atom.ch = c

\* How many characters from offset pos on the atom matches in a row.
RECURSIVE RunLength(_, _, _, _)
RunLength(atom, text, pos, ignorecase) ==
    IF pos < Len(text) /\ AtomMatches(atom, text[pos + 1], ignorecase)
    THEN 1 + RunLength(atom, text, pos + 1, ignorecase)
    ELSE 0

\* The most repetitions a quantified atom can take at offset pos.
MaxTake(atom, text, pos, ignorecase) ==
    IF atom.quant = "?" THEN Min(1, RunLength(atom, text, pos, ignorecase))
    ELSE RunLength(atom, text, pos, ignorecase)

\* The backtracking matcher: the end of the match of atoms[i..] at offset
\* pos that the engine finds first, -1 if there is none. A greedy atom takes
\* as much as it can and gives back one character at a time; a lazy one
\* takes nothing and then one character more at a time. A match must end at
\* min_end or later.
RECURSIVE MatchFrom(_, _, _, _, _, _)
RECURSIVE QuantTry(_, _, _, _, _, _, _, _)
MatchFrom(atoms, i, text, pos, ignorecase, min_end) ==
    IF i > Len(atoms) THEN (IF pos >= min_end THEN pos ELSE -1)
    ELSE IF atoms[i].quant # "1"
         THEN LET most == MaxTake(atoms[i], text, pos, ignorecase)
              IN QuantTry(atoms, i, text, pos, ignorecase, min_end,
                          IF atoms[i].lazy THEN 0 ELSE most, most)
         ELSE IF pos < Len(text) /\ AtomMatches(atoms[i], text[pos + 1], ignorecase)
              THEN MatchFrom(atoms, i + 1, text, pos + 1, ignorecase, min_end)
              ELSE -1
QuantTry(atoms, i, text, pos, ignorecase, min_end, k, most) ==
    IF k < 0 \/ k > most THEN -1
    ELSE LET e == MatchFrom(atoms, i + 1, text, pos + k, ignorecase, min_end)
         IN IF e # -1 THEN e
            ELSE QuantTry(atoms, i, text, pos, ignorecase, min_end,
                          IF atoms[i].lazy THEN k + 1 ELSE k - 1, most)

\* The first offset s >= from at which the pattern matches, with the end of
\* that match; after an empty match the attempt at the same offset must
\* advance.
RECURSIVE SearchFrom(_, _, _, _, _, _)
SearchFrom(atoms, text, s, from, must_advance, ignorecase) ==
    IF s > Len(text) THEN <<-1, -1>>
    ELSE LET e == MatchFrom(atoms, 1, text, s, ignorecase,
                            IF s = from /\ must_advance THEN s + 1 ELSE s)
         IN IF e # -1 THEN <<s, e>>
            ELSE SearchFrom(atoms, text, s + 1, from, must_advance, ignorecase)

\* _compile_pattern deferring the compilation: no syntax error at this point.
_compile_pattern_unchecked(search_text, case_sensitive, use_regex) ==
    IF ~use_regex THEN [kind |-> "none"]
    ELSE [kind |-> "regex", lit |-> search_text, ignorecase |-> ~case_sensitive]

\* _compile_pattern: None without use_regex, else re.compile (which raises
\* on invalid syntax).
_compile_pattern(search_text, case_sensitive, use_regex) ==
    IF ~use_regex THEN NoPattern
    ELSE IF ~RegexSyntaxOk(search_text) THEN CompileError
    ELSE [kind |-> "regex", lit |-> search_text, ignorecase |-> ~case_sensitive]

\* The literal loop: idx = find(...); while idx != -1: append; find(idx + 1).
RECURSIVE LiteralSpans(_, _, _)
LiteralSpans(src, tgt, idx) ==
    IF idx = -1 THEN <<>>
    ELSE <<<<idx, idx + Len(tgt)>>>> \o LiteralSpans(src, tgt, Find(src, tgt, idx + 1))

\* A scan that resumes one character after the start of the previous match.
RECURSIVE FinditerSpans_Overlapping(_, _, _, _, _)
FinditerSpans_Overlapping(atoms, text, from, must_advance, ignorecase) ==
    LET m == SearchFrom(atoms, text, from, from, must_advance, ignorecase)
    IN IF m[1] = -1 THEN <<>>
       ELSE <<m>> \o FinditerSpans_Overlapping(atoms, text, m[1] + 1, FALSE, ignorecase)

\* patt.finditer: leftmost matches, each search resuming at the end of the
\* previous match.
RECURSIVE FinditerSpans(_, _, _, _, _)
FinditerSpans(atoms, text, from, must_advance, ignorecase) ==
    LET m == SearchFrom(atoms, text, from, from, must_advance, ignorecase)
    IN IF m[1] = -1 THEN <<>>
       ELSE <<m>> \o FinditerSpans(atoms, text, m[2], m[2] = m[1], ignorecase)

_find_matches_in_text(text, search_text, case_sensitive, patt) ==
    IF patt.kind = "regex"
    THEN FinditerSpans(ParseAtoms(patt.lit, 1), text, 0, FALSE, patt.ignorecase)
    ELSE IF case_sensitive
         THEN LiteralSpans(text, search_text, Find(text, search_text, 0))
         ELSE LiteralSpans(Lower(text), Lower(search_text),
                           Find(Lower(text), Lower(search_text), 0))

\* .replace("\n", " ").replace("\r", " ")
Flatten(s) == [i \in 1 .. Len(s) |-> IF s[i] \in {"\n", "\r"} THEN " " ELSE s[i]]

Ellipsis == <<".", ".", ".">>

\* The snippet with both markers whatever the window.
_make_snippet_always_marked(text, span, context) ==
    LET start == Max(0, span[1] - context)
        end == Min(Len(text), span[2] + context)
    IN Ellipsis \o Flatten(Slice(text, start, end)) \o Ellipsis

_make_snippet(text, span, context) ==
    LET start == Max(0, span[1] - context)
        end == Min(Len(text), span[2] + context)
        body == Flatten(Slice(text, start, end))
        lead == IF start > 0 THEN Ellipsis \o body ELSE body
    IN IF end < Len(text) THEN lead \o Ellipsis ELSE lead

\* extract_text_per_page_fast(fpath): the page dictionary, or the exception
\* raised when the file cannot be opened or mapped.
extract_text_per_page_fast(f) ==
    IF Readable(f) THEN [ok |-> TRUE, pages |-> PagesOnDisk(f)]
    ELSE [ok |-> FALSE, pages |-> <<>>]

\* The hit records one page contributes (lines 299-307).
PageHits(f, page_no, page_text, search_text, case_sensitive, patt) ==
    LET spans == _find_matches_in_text(page_text, search_text, case_sensitive, patt)
    IN [k \in 1 .. Len(spans) |->
           [file |-> f, page |-> page_no,
            snippet |-> _make_snippet(page_text, spans[k], DefaultContext)]]

\* The error record of a failed file (lines 309-315).
ErrorRecord(f) == [file |-> f, error |-> "Exception"]

\* ------------------------------------------------------------- state
VARIABLES
    \* the user's inputs and the machine (fixed during a behaviour)
    var_search,     \* PdfSearchApp.var_search, stripped
    var_case,       \* PdfSearchApp.var_case
    var_regex,      \* PdfSearchApp.var_regex
    folder,         \* the .pdf files _collect_files finds
    cpu_count,      \* os.cpu_count(), 0 for None
    run_budget,     \* how many accepted presses of Run a behaviour contains
    \* PdfSearchApp (UI thread)
    app_results,    \* self._results
    app_errors,     \* self._errors
    ui_cancel,      \* self._cancel_event
    btn_cancel,     \* self.btn_cancel is enabled
    ui_queue,       \* self._ui_queue
    cur_thread,     \* self._thread: the run started last, 0 for None
    msgbox,         \* the message box shown last
    prog_value,     \* self.prog value
    nruns,          \* runs started so far
    delivered,      \* per run: the terminal events _drain_ui_queue has handled
    \* main_processor, one frame per run
    mp_pc,          \* where the run's thread is
    run_files,      \* files
    patt,           \* patt
    results,        \* results
    errors,         \* errors
    done,           \* done
    cancel_event,   \* cancel_event (the run's own threading.Event)
    submitted,      \* how many files of run_files have been submitted
    yielded,        \* futures as_completed has yielded
    cur_fut,        \* the file of the future the loop body holds, 0 if none
    \* _worker_search_file, one frame per run and file
    task_pc,        \* none / queued / entered / paging / done
    task_page,      \* page_no of the for loop
    task_res,       \* res
    task_err,       \* err
    task_pages,     \* pages_text, and whether extraction was called
    \* history
    progress_log,   \* per run: the done value of every progress_cb call so far
    \* one call of a function of the module on its own
    pf_pc,          \* "off", or where the call is
    pf_in,          \* the arguments
    pf_out          \* the value returned

pure == <<pf_pc, pf_in, pf_out>>
inputs == <<var_search, var_case, var_regex, folder, cpu_count, run_budget>>
app_vars == <<app_results, app_errors, ui_cancel, btn_cancel, cur_thread, msgbox,
              prog_value, nruns, delivered>>
mp_vars == <<mp_pc, run_files, patt, results, errors, done, cancel_event, submitted,
             yielded, cur_fut>>
task_vars == <<task_pc, task_page, task_res, task_err, task_pages>>
vars == <<inputs, app_vars, ui_queue, mp_vars, task_vars, progress_log, pure>>

NotExtracted == [called |-> FALSE, ok |-> FALSE, pages |-> <<>>]

\* max_workers = max(2, min(32, (os.cpu_count() or 4) * 2))
max_workers ==
    Max(MinWorkers, Min(MaxWorkers, (IF cpu_count = 0 THEN FallbackCpus ELSE cpu_count) * 2))

\* _collect_files: the folder's .pdf files, smallest first (file ids are in
\* size order).
RECURSIVE SortedSeq(_)
SortedSeq(S) ==
    IF S = {} THEN <<>>
    ELSE LET m == CHOOSE x \in S : \A y \in S : x <= y
         IN <<m>> \o SortedSeq(S \ {m})

_collect_files == SortedSeq(folder)

\* _validate_inputs
_validate_inputs == var_search # <<>> /\ _collect_files # <<>>

\* threading.Thread.is_alive() of the run's thread
is_alive(r) == mp_pc[r] \notin {"none", "finished"}

FileSet(r) == {run_files[r][i] : i \in 1 .. Len(run_files[r])}

\* The application just constructed, no run started.
InitProgram ==
    /\ app_results = <<>>
    /\ app_errors = <<>>
    /\ ui_cancel = FALSE
    /\ btn_cancel = FALSE
    /\ ui_queue = <<>>
    /\ cur_thread = 0
    /\ msgbox = "none"
    /\ prog_value = 0
    /\ nruns = 0
    /\ delivered = [r \in Runs |-> <<>>]
    /\ mp_pc = [r \in Runs |-> "none"]
    /\ run_files = [r \in Runs |-> <<>>]
    /\ patt = [r \in Runs |-> NoPattern]
    /\ results = [r \in Runs |-> <<>>]
    /\ errors = [r \in Runs |-> <<>>]
    /\ done = [r \in Runs |-> 0]
    /\ cancel_event = [r \in Runs |-> FALSE]
    /\ submitted = [r \in Runs |-> 0]
    /\ yielded = [r \in Runs |-> {}]
    /\ cur_fut = [r \in Runs |-> 0]
    /\ task_pc = [r \in Runs |-> [f \in Files |-> "none"]]
    /\ task_page = [r \in Runs |-> [f \in Files |-> 0]]
    /\ task_res = [r \in Runs |-> [f \in Files |-> <<>>]]
    /\ task_err = [r \in Runs |-> [f \in Files |-> <<>>]]
    /\ task_pages = [r \in Runs |-> [f \in Files |-> NotExtracted]]
    /\ progress_log = [r \in Runs |-> <<>>]

InitCommon ==
    /\ var_search \in SearchTexts
    /\ var_case \in BOOLEAN
    /\ var_regex \in BOOLEAN
    /\ cpu_count \in CpuCounts
    /\ InitProgram
    /\ pf_pc = "off"
    /\ pf_in = <<>>
    /\ pf_out = <<>>

\* One search run over the whole folder (or over an empty one).
Init ==
    /\ InitCommon
    /\ folder \in {{}, Files}
    /\ run_budget = 1

\* The application over several presses of Run: a literal, case-insensitive
\* search (or an empty search box) on a folder of one file.
InitApp ==
    /\ InitCommon
    /\ var_search \in {<<>>, <<"a", "a">>}
    /\ var_case = FALSE
    /\ var_regex = FALSE
    /\ cpu_count = 0
    /\ folder = {1}
    /\ run_budget = MaxRuns

\* --------------------------------------------------- PdfSearchApp (UI)

\* _on_run when _validate_inputs fails: a warning box, nothing else.
OnRunRejected ==
    /\ ~_validate_inputs
    /\ msgbox' = "warn"
    /\ UNCHANGED <<inputs, pure, progress_log, app_results, app_errors, ui_cancel, btn_cancel, cur_thread,
                   prog_value, nruns, delivered, ui_queue, mp_vars, task_vars>>

\* _on_run: _clear_results, _collect_files, clear the cancel event, enable
\* the cancel button, start the worker thread on main_processor.
OnRun ==
    /\ _validate_inputs
    /\ nruns < run_budget
    /\ LET r == nruns + 1 IN
        /\ app_results' = <<>>
        /\ app_errors' = <<>>
        /\ prog_value' = 0
        /\ ui_cancel' = FALSE
        /\ btn_cancel' = TRUE
        /\ cur_thread' = r
        /\ nruns' = r
        /\ run_files' = [run_files EXCEPT ![r] = _collect_files]
        /\ mp_pc' = [mp_pc EXCEPT ![r] = "compile"]
    /\ UNCHANGED <<inputs, pure, progress_log, msgbox, delivered, ui_queue, patt, results, errors, done,
                   cancel_event, submitted, yielded, cur_fut, task_vars>>

\* _on_cancel (the button invokes it only while enabled).
OnCancel ==
    /\ btn_cancel
    /\ IF cur_thread # 0 /\ is_alive(cur_thread)
       THEN /\ ui_cancel' = TRUE
            /\ btn_cancel' = FALSE
       ELSE UNCHANGED <<ui_cancel, btn_cancel>>
    /\ UNCHANGED <<inputs, pure, progress_log, app_results, app_errors, cur_thread, msgbox, prog_value, nruns,
                   delivered, ui_queue, mp_vars, task_vars>>

\* What the UI thread holds while it drains the queue.
UiState ==
    [res |-> app_results, err |-> app_errors, btn |-> btn_cancel, box |-> msgbox,
     prog |-> prog_value, deliv |-> delivered]

\* One iteration of the while loop of _drain_ui_queue.
HandleMessage(st, m) ==
    CASE m.kind = "progress" -> [st EXCEPT !.prog = m.done]
      [] m.kind = "log" -> st
      [] m.kind = "result_all" ->
            [st EXCEPT !.res = st.res \o m.results,
                       !.err = st.err \o m.errors,
                       !.btn = FALSE,
                       !.box = "done",
                       !.deliv[m.run] = Append(st.deliv[m.run], "result_all")]
      [] m.kind = "fatal" ->
            [st EXCEPT !.btn = FALSE,
                       !.box = "fatal",
                       !.deliv[m.run] = Append(st.deliv[m.run], "fatal")]

RECURSIVE HandleAll(_, _)
HandleAll(st, q) == IF q = <<>> THEN st ELSE HandleAll(HandleMessage(st, Head(q)), Tail(q))

\* _drain_ui_queue: handles every queued message, until queue.Empty.
DrainUiQueue ==
    /\ ui_queue # <<>>
    /\ LET st == HandleAll(UiState, ui_queue) IN
        /\ app_results' = st.res
        /\ app_errors' = st.err
        /\ btn_cancel' = st.btn
        /\ msgbox' = st.box
        /\ prog_value' = st.prog
        /\ delivered' = st.deliv
    /\ ui_queue' = <<>>
    /\ UNCHANGED <<inputs, pure, progress_log, ui_cancel, cur_thread, nruns, mp_vars, task_vars>>

\* ----------------------------------------------------- main_processor

ProgressMsg(r, d) == [kind |-> "progress", run |-> r, done |-> d, total |-> Len(run_files[r])]

\* line 331: patt = _compile_pattern(...); re.error leaves main_processor.
MP_Compile(r) ==
    /\ mp_pc[r] = "compile"
    /\ LET p == _compile_pattern(var_search, var_case, var_regex) IN
        IF p = CompileError
        THEN /\ mp_pc' = [mp_pc EXCEPT ![r] = "raised"]
             /\ UNCHANGED patt
        ELSE /\ mp_pc' = [mp_pc EXCEPT ![r] = "progress0"]
             /\ patt' = [patt EXCEPT ![r] = p]
    /\ UNCHANGED <<inputs, pure, progress_log, app_vars, ui_queue, run_files, results, errors, done,
                   cancel_event, submitted, yielded, cur_fut, task_vars>>

\* lines 336-337: done = 0; progress_cb(0, total, ...).
MP_Progress0(r) ==
    /\ mp_pc[r] = "progress0"
    /\ ui_queue' = Append(ui_queue, ProgressMsg(r, 0))
    /\ progress_log' = [progress_log EXCEPT ![r] = Append(@, 0)]
    /\ mp_pc' = [mp_pc EXCEPT ![r] = "submit"]
    /\ UNCHANGED <<inputs, pure, app_vars, run_files, patt, results, errors, done, cancel_event,
                   submitted, yielded, cur_fut, task_vars>>

\* lines 349-352: ex.submit of the next file of the list.
MP_Submit(r) ==
    /\ mp_pc[r] = "submit"
    /\ submitted[r] < Len(run_files[r])
    /\ LET f == run_files[r][submitted[r] + 1] IN
        task_pc' = [task_pc EXCEPT ![r][f] = "queued"]
    /\ submitted' = [submitted EXCEPT ![r] = @ + 1]
    /\ mp_pc' = [mp_pc EXCEPT ![r] =
                    IF submitted[r] + 1 = Len(run_files[r]) THEN "wait" ELSE "submit"]
    /\ UNCHANGED <<inputs, pure, progress_log, app_vars, ui_queue, run_files, patt, results, errors, done,
                   cancel_event, yielded, cur_fut, task_page, task_res, task_err,
                   task_pages>>

\* The loop iterating the futures without waiting for their completion.
MP_Poll_AnyFuture(r) ==
    /\ mp_pc[r] = "wait"
    /\ \E f \in FileSet(r) \ yielded[r] :
        /\ yielded' = [yielded EXCEPT ![r] = @ \cup {f}]
        /\ cur_fut' = [cur_fut EXCEPT ![r] = f]
    /\ mp_pc' = [mp_pc EXCEPT ![r] = IF ui_cancel THEN "set_event" ELSE "collect"]
    /\ UNCHANGED <<inputs, pure, progress_log, app_vars, ui_queue, run_files, patt, results, errors, done,
                   cancel_event, submitted, task_vars>>

\* lines 353-354 and 343: as_completed yields a finished future and
\* _cancel_check polls cancel_flag().
MP_Poll(r) ==
    /\ mp_pc[r] = "wait"
    /\ \E f \in FileSet(r) \ yielded[r] :
        /\ task_pc[r][f] = "done"
        /\ yielded' = [yielded EXCEPT ![r] = @ \cup {f}]
        /\ cur_fut' = [cur_fut EXCEPT ![r] = f]
    /\ mp_pc' = [mp_pc EXCEPT ![r] = IF ui_cancel THEN "set_event" ELSE "collect"]
    /\ UNCHANGED <<inputs, pure, progress_log, app_vars, ui_queue, run_files, patt, results, errors, done,
                   cancel_event, submitted, task_vars>>

\* The cancellation branch raising instead of leaving the loop.
MP_SetEvent_Raises(r) ==
    /\ mp_pc[r] = "set_event"
    /\ cancel_event' = [cancel_event EXCEPT ![r] = TRUE]
    /\ ui_queue' = Append(ui_queue, [kind |-> "log", run |-> r])
    /\ cur_fut' = [cur_fut EXCEPT ![r] = 0]
    /\ mp_pc' = [mp_pc EXCEPT ![r] = "unwind"]
    /\ UNCHANGED <<inputs, pure, progress_log, app_vars, run_files, patt, results, errors, done, submitted,
                   yielded, task_vars>>

\* The cancellation branch without its break: the future is collected.
MP_SetEvent_NoBreak(r) ==
    /\ mp_pc[r] = "set_event"
    /\ cancel_event' = [cancel_event EXCEPT ![r] = TRUE]
    /\ ui_queue' = Append(ui_queue, [kind |-> "log", run |-> r])
    /\ mp_pc' = [mp_pc EXCEPT ![r] = "collect"]
    /\ UNCHANGED <<inputs, pure, progress_log, app_vars, run_files, patt, results, errors, done, submitted,
                   yielded, cur_fut, task_vars>>

\* lines 344-356: cancel_event.set(); log_cb(...); break.
MP_SetEvent(r) ==
    /\ mp_pc[r] = "set_event"
    /\ cancel_event' = [cancel_event EXCEPT ![r] = TRUE]
    /\ ui_queue' = Append(ui_queue, [kind |-> "log", run |-> r])
    /\ cur_fut' = [cur_fut EXCEPT ![r] = 0]
    /\ mp_pc' = [mp_pc EXCEPT ![r] = "shutdown"]
    /\ UNCHANGED <<inputs, pure, progress_log, app_vars, run_files, patt, results, errors, done, submitted,
                   yielded, task_vars>>

\* The loop body counting and reporting only the files that yielded no
\* error record.
MP_Collect_SkipFailed(r) ==
    /\ mp_pc[r] = "collect"
    /\ LET f == cur_fut[r]
           counted == task_err[r][f] = <<>>
       IN /\ results' = [results EXCEPT ![r] = @ \o task_res[r][f]]
          /\ errors' = [errors EXCEPT ![r] = @ \o task_err[r][f]]
          /\ done' = [done EXCEPT ![r] = IF counted THEN @ + 1 ELSE @]
          /\ ui_queue' = IF counted THEN Append(ui_queue, ProgressMsg(r, done[r] + 1))
                         ELSE ui_queue
          /\ progress_log' = [progress_log EXCEPT ![r] =
                                  IF counted THEN Append(@, done[r] + 1) ELSE @]
    /\ cur_fut' = [cur_fut EXCEPT ![r] = 0]
    /\ mp_pc' = [mp_pc EXCEPT ![r] = "wait"]
    /\ UNCHANGED <<inputs, pure, app_vars, run_files, patt, cancel_event, submitted, yielded,
                   task_vars>>

\* lines 357-374: fut.result(); extend results and errors; done += 1;
\* progress_cb(done, total, ...).
MP_Collect(r) ==
    /\ mp_pc[r] = "collect"
    /\ LET f == cur_fut[r] IN
        /\ results' = [results EXCEPT ![r] = @ \o task_res[r][f]]
        /\ errors' = [errors EXCEPT ![r] = @ \o task_err[r][f]]
    /\ done' = [done EXCEPT ![r] = @ + 1]
    /\ ui_queue' = Append(ui_queue, ProgressMsg(r, done[r] + 1))
    /\ progress_log' = [progress_log EXCEPT ![r] = Append(@, done[r] + 1)]
    /\ cur_fut' = [cur_fut EXCEPT ![r] = 0]
    /\ mp_pc' = [mp_pc EXCEPT ![r] = "wait"]
    /\ UNCHANGED <<inputs, pure, app_vars, run_files, patt, cancel_event, submitted, yielded,
                   task_vars>>

\* as_completed is exhausted: the for loop ends.
MP_LoopEnd(r) ==
    /\ mp_pc[r] = "wait"
    /\ yielded[r] = FileSet(r)
    /\ mp_pc' = [mp_pc EXCEPT ![r] = "shutdown"]
    /\ UNCHANGED <<inputs, pure, progress_log, app_vars, ui_queue, run_files, patt, results, errors, done,
                   cancel_event, submitted, yielded, cur_fut, task_vars>>

\* Leaving the with block: ThreadPoolExecutor.shutdown(wait=True) returns
\* once every submitted task has run; then line 376 returns.
MP_Shutdown(r) ==
    /\ mp_pc[r] = "shutdown"
    /\ \A f \in FileSet(r) : task_pc[r][f] = "done"
    /\ mp_pc' = [mp_pc EXCEPT ![r] = "returned"]
    /\ UNCHANGED <<inputs, pure, progress_log, app_vars, ui_queue, run_files, patt, results, errors, done,
                   cancel_event, submitted, yielded, cur_fut, task_vars>>

\* An exception of the pool layer (ex.submit, as_completed) inside the with
\* block.
MP_PoolFault(r) ==
    /\ mp_pc[r] \in {"submit", "wait"}
    /\ mp_pc' = [mp_pc EXCEPT ![r] = "unwind"]
    /\ UNCHANGED <<inputs, pure, progress_log, app_vars, ui_queue, run_files, patt, results, errors, done,
                   cancel_event, submitted, yielded, cur_fut, task_vars>>

\* The with block left by an exception: shutdown(wait=True) first.
MP_Unwind(r) ==
    /\ mp_pc[r] = "unwind"
    /\ \A f \in FileSet(r) : task_pc[r][f] \in {"none", "done"}
    /\ mp_pc' = [mp_pc EXCEPT ![r] = "raised"]
    /\ UNCHANGED <<inputs, pure, progress_log, app_vars, ui_queue, run_files, patt, results, errors, done,
                   cancel_event, submitted, yielded, cur_fut, task_vars>>

\* _on_run.worker, line 618: the returned lists go to the UI queue.
Worker_PutResult(r) ==
    /\ mp_pc[r] = "returned"
    /\ ui_queue' = Append(ui_queue, [kind |-> "result_all", run |-> r,
                                     results |-> results[r], errors |-> errors[r]])
    /\ mp_pc' = [mp_pc EXCEPT ![r] = "finished"]
    /\ UNCHANGED <<inputs, pure, progress_log, app_vars, run_files, patt, results, errors, done, cancel_event,
                   submitted, yielded, cur_fut, task_vars>>

\* The worker thread ending on an exception without a word to the queue.
Worker_PutFatal_Silent(r) ==
    /\ mp_pc[r] = "raised"
    /\ mp_pc' = [mp_pc EXCEPT ![r] = "finished"]
    /\ UNCHANGED <<inputs, pure, progress_log, app_vars, ui_queue, run_files, patt, results, errors, done,
                   cancel_event, submitted, yielded, cur_fut, task_vars>>

\* _on_run.worker, lines 619-620: only the exception text goes to the queue.
Worker_PutFatal(r) ==
    /\ mp_pc[r] = "raised"
    /\ ui_queue' = Append(ui_queue, [kind |-> "fatal", run |-> r])
    /\ mp_pc' = [mp_pc EXCEPT ![r] = "finished"]
    /\ UNCHANGED <<inputs, pure, progress_log, app_vars, run_files, patt, results, errors, done, cancel_event,
                   submitted, yielded, cur_fut, task_vars>>

\* ------------------------------------------------ _worker_search_file

\* Tasks of the run's pool that a pool thread is executing.
Running(r) == {f \in FileSet(r) : task_pc[r][f] \in {"entered", "paging"}}

\* Position of file f in the run's file list.
IndexOf(r, f) == CHOOSE i \in 1 .. Len(run_files[r]) : run_files[r][i] = f

\* The task without its entry check of cancel_event.
Task_Enter_NoGate(r, f) ==
    /\ task_pc[r][f] = "queued"
    /\ \A g \in FileSet(r) : IndexOf(r, g) < IndexOf(r, f) => task_pc[r][g] # "queued"
    /\ Cardinality(Running(r)) < max_workers
    /\ task_pc' = [task_pc EXCEPT ![r][f] = "entered"]
    /\ UNCHANGED <<inputs, pure, progress_log, app_vars, ui_queue, mp_vars, task_page, task_res, task_err,
                   task_pages>>

\* A pool thread takes the oldest queued work item (at most max_workers
\* threads exist) and runs lines 286-290: the entry check of cancel_event.
Task_Enter(r, f) ==
    /\ task_pc[r][f] = "queued"
    /\ \A g \in FileSet(r) : IndexOf(r, g) < IndexOf(r, f) => task_pc[r][g] # "queued"
    /\ Cardinality(Running(r)) < max_workers
    /\ task_pc' = [task_pc EXCEPT ![r][f] = IF cancel_event[r] THEN "done" ELSE "entered"]
    /\ UNCHANGED <<inputs, pure, progress_log, app_vars, ui_queue, mp_vars, task_page, task_res, task_err,
                   task_pages>>

\* The task swallowing the exception: no error record.
Task_Extract_Swallow(r, f) ==
    /\ task_pc[r][f] = "entered"
    /\ LET x == extract_text_per_page_fast(f) IN
        /\ task_pages' = [task_pages EXCEPT ![r][f] =
                             [called |-> TRUE, ok |-> x.ok, pages |-> x.pages]]
        /\ IF ~x.ok
           THEN /\ task_pc' = [task_pc EXCEPT ![r][f] = "done"]
                /\ UNCHANGED task_page
           ELSE /\ task_pc' = [task_pc EXCEPT ![r][f] =
                                  IF x.pages = <<>> THEN "done" ELSE "paging"]
                /\ task_page' = [task_page EXCEPT ![r][f] = 1]
    /\ UNCHANGED <<inputs, pure, progress_log, app_vars, ui_queue, mp_vars, task_res, task_err>>

\* line 293 (and 308-315): pages_text = extract_text_per_page_fast(fpath);
\* an exception becomes the task's one error record.
Task_Extract(r, f) ==
    /\ task_pc[r][f] = "entered"
    /\ LET x == extract_text_per_page_fast(f) IN
        /\ task_pages' = [task_pages EXCEPT ![r][f] =
                             [called |-> TRUE, ok |-> x.ok, pages |-> x.pages]]
        /\ IF ~x.ok
           THEN /\ task_err' = [task_err EXCEPT ![r][f] = Append(@, ErrorRecord(f))]
                /\ task_pc' = [task_pc EXCEPT ![r][f] = "done"]
                /\ UNCHANGED task_page
           ELSE /\ task_pc' = [task_pc EXCEPT ![r][f] =
                                  IF x.pages = <<>> THEN "done" ELSE "paging"]
                /\ task_page' = [task_page EXCEPT ![r][f] = 1]
                /\ UNCHANGED task_err
    /\ UNCHANGED <<inputs, pure, progress_log, app_vars, ui_queue, mp_vars, task_res>>

\* The task appending its hits to the run's shared results list.
Task_Page_SharedList(r, f) ==
    /\ task_pc[r][f] = "paging"
    /\ LET page_no == task_page[r][f]
           page_text == task_pages[r][f].pages[page_no]
           last == page_no = Len(task_pages[r][f].pages)
       IN IF cancel_event[r]
          THEN /\ task_pc' = [task_pc EXCEPT ![r][f] = "done"]
               /\ UNCHANGED <<task_page, results>>
          ELSE /\ results' = [results EXCEPT ![r] =
                                 IF page_text = <<>> THEN @
                                 ELSE @ \o PageHits(f, page_no, page_text, var_search,
                                                    var_case, patt[r])]
               /\ task_page' = [task_page EXCEPT ![r][f] = page_no + 1]
               /\ task_pc' = [task_pc EXCEPT ![r][f] = IF last THEN "done" ELSE "paging"]
    /\ UNCHANGED <<inputs, pure, progress_log, app_vars, ui_queue, mp_pc, run_files, patt, errors, done,
                   cancel_event, submitted, yielded, cur_fut, task_res, task_err,
                   task_pages>>

\* The task scanning its pages without looking at the cancellation signal.
Task_Page_NoPoll(r, f) ==
    /\ task_pc[r][f] = "paging"
    /\ LET page_no == task_page[r][f]
           page_text == task_pages[r][f].pages[page_no]
           last == page_no = Len(task_pages[r][f].pages)
       IN /\ task_res' = [task_res EXCEPT ![r][f] =
                              IF page_text = <<>> THEN @
                              ELSE @ \o PageHits(f, page_no, page_text, var_search,
                                                 var_case, patt[r])]
          /\ task_page' = [task_page EXCEPT ![r][f] = page_no + 1]
          /\ task_pc' = [task_pc EXCEPT ![r][f] = IF last THEN "done" ELSE "paging"]
    /\ UNCHANGED <<inputs, pure, progress_log, app_vars, ui_queue, mp_vars, task_err, task_pages>>

\* The task putting the hits of a page in front of those it holds.
Task_Page_Prepend(r, f) ==
    /\ task_pc[r][f] = "paging"
    /\ LET page_no == task_page[r][f]
           page_text == task_pages[r][f].pages[page_no]
           last == page_no = Len(task_pages[r][f].pages)
       IN IF cancel_event[r]
          THEN /\ task_pc' = [task_pc EXCEPT ![r][f] = "done"]
               /\ UNCHANGED <<task_page, task_res>>
          ELSE /\ task_res' = [task_res EXCEPT ![r][f] =
                                  IF page_text = <<>> THEN @
                                  ELSE PageHits(f, page_no, page_text, var_search,
                                                var_case, patt[r]) \o @]
               /\ task_page' = [task_page EXCEPT ![r][f] = page_no + 1]
               /\ task_pc' = [task_pc EXCEPT ![r][f] = IF last THEN "done" ELSE "paging"]
    /\ UNCHANGED <<inputs, pure, progress_log, app_vars, ui_queue, mp_vars, task_err, task_pages>>

\* lines 294-307, one iteration of the page loop: the cancel check, then
\* the whole page (matches and snippets); after the last page the task
\* returns (res, err).
Task_Page(r, f) ==
    /\ task_pc[r][f] = "paging"
    /\ LET page_no == task_page[r][f]
           page_text == task_pages[r][f].pages[page_no]
           last == page_no = Len(task_pages[r][f].pages)
       IN IF cancel_event[r]
          THEN /\ task_pc' = [task_pc EXCEPT ![r][f] = "done"]
               /\ UNCHANGED <<task_page, task_res>>
          ELSE /\ task_res' = [task_res EXCEPT ![r][f] =
                                  IF page_text = <<>> THEN @
                                  ELSE @ \o PageHits(f, page_no, page_text, var_search,
                                                     var_case, patt[r])]
               /\ task_page' = [task_page EXCEPT ![r][f] = page_no + 1]
               /\ task_pc' = [task_pc EXCEPT ![r][f] = IF last THEN "done" ELSE "paging"]
    /\ UNCHANGED <<inputs, pure, progress_log, app_vars, ui_queue, mp_vars, task_err, task_pages>>

\* ------------------------------------------------------ specification
Next ==
    \/ OnRunRejected
    \/ OnRun
    \/ OnCancel
    \/ DrainUiQueue
    \/ \E r \in Runs :
        \/ MP_Compile(r)
        \/ MP_Progress0(r)
        \/ MP_Submit(r)
        \/ MP_Poll(r)
        \/ MP_SetEvent(r)
        \/ MP_Collect(r)
        \/ MP_LoopEnd(r)
        \/ MP_Shutdown(r)
        \/ MP_PoolFault(r)
        \/ MP_Unwind(r)
        \/ Worker_PutResult(r)
        \/ Worker_PutFatal(r)
        \/ \E f \in Files :
            \/ Task_Enter(r, f)
            \/ Task_Extract(r, f)
            \/ Task_Page(r, f)

\* One run of the search.
Spec == Init /\ [][Next]_vars

\* The application over several runs.
SpecApp == InitApp /\ [][Next]_vars

\* What the scheduling gives: the worker thread of a run (line 622) and
\* the pool threads of its tasks (line 349) keep running while they can
\* take a step, and the UI thread calls _drain_ui_queue again every 100 ms
\* (line 692). Nothing obliges the user to press a button, and nothing
\* obliges the pool to fail.
WorkerStep(r) ==
    \/ MP_Compile(r) \/ MP_Progress0(r) \/ MP_Submit(r) \/ MP_Poll(r)
    \/ MP_SetEvent(r) \/ MP_Collect(r) \/ MP_LoopEnd(r) \/ MP_Shutdown(r)
    \/ MP_Unwind(r) \/ Worker_PutResult(r) \/ Worker_PutFatal(r)

TaskStart(r, f) == Task_Enter(r, f) \/ Task_Extract(r, f)

\* WF_vars(Task_Page(r, f)) written out: an iteration of the page loop
\* can be taken exactly while the task is paging, and it always changes
\* the task's page or position.
PageLoopFairness(r, f) ==
    \/ []<>(task_pc[r][f] # "paging")
    \/ []<><<Task_Page(r, f)>>_vars

Fairness ==
    /\ WF_vars(DrainUiQueue)
    /\ \A r \in Runs : WF_vars(WorkerStep(r))
    /\ \A r \in Runs : \A f \in Files :
          WF_vars(TaskStart(r, f)) /\ PageLoopFairness(r, f)

\* The application over several runs, fairly scheduled.
LiveSpecApp == InitApp /\ [][Next]_vars /\ Fairness

\* ------------------------------------------------- reference results
Range(seq) == {seq[i] : i \in 1 .. Len(seq)}

\* The hits of one file when nothing interrupts its task: every page in
\* page order.
RECURSIVE HitsFromPage(_, _, _, _)
HitsFromPage(f, pages, page_no, p) ==
    IF page_no > Len(pages) THEN <<>>
    ELSE (IF pages[page_no] = <<>> THEN <<>>
          ELSE PageHits(f, page_no, pages[page_no], var_search, var_case, p))
         \o HitsFromPage(f, pages, page_no + 1, p)

FileHits(f) ==
    IF Readable(f)
    THEN HitsFromPage(f, PagesOnDisk(f), 1, _compile_pattern(var_search, var_case, var_regex))
    ELSE <<>>

\* The hit set and the error set of an undisturbed run over the files of r.
FullRunHits(r) == UNION {Range(FileHits(f)) : f \in FileSet(r)}
FullRunErrors(r) == {ErrorRecord(f) : f \in {g \in FileSet(r) : ~Readable(g)}}

\* The coordinator of run r has observed the cancellation signal.
Observed(r) == mp_pc[r] = "set_event" \/ cancel_event[r]

\* ------------------------------------- the functions called on their own
\* The application left alone (empty search box, no folder), while one
\* function of the module is called with arguments of its domain.
InitPure ==
    /\ var_search = <<>>
    /\ var_case = FALSE
    /\ var_regex = FALSE
    /\ cpu_count = 0
    /\ folder = {}
    /\ run_budget = 0
    /\ InitProgram

\* All sequences over S of length at most n.
SeqsUpTo(S, n) == UNION {[1 .. k -> S] : k \in 0 .. n}

\* Page texts: every text of at most MaxTextLen characters over TextChars,
\* and one with the same word in three letter cases.
TextChars == {"a", "A", "b", "\n", "U+0130"}
Str_ABabAb == <<"A", "B", "a", "b", "A", "b">>
MatchTexts == SeqsUpTo(TextChars, MaxTextLen) \cup {Str_ABabAb}

\* Search texts: plain ones, and ones that are regular expressions when
\* the regex option is on ("(" does not compile).
MatchKeys ==
    {<<>>, <<"a">>, <<"a", "a">>, <<"A">>, <<"a", "b">>, <<"i">>, <<"(">>,
     <<"a", "*">>, <<"a", "*", "?">>, <<"a", ".", "*", "b">>, <<".", "?">>}

InitMatch ==
    /\ InitPure
    /\ pf_pc = "find_matches"
    /\ pf_in \in [text : MatchTexts, search_text : MatchKeys,
                   case_sensitive : BOOLEAN, use_regex : BOOLEAN]
    /\ pf_out = <<>>

\* patt = _compile_pattern(search_text, case_sensitive, use_regex) as at
\* line 331, then _find_matches_in_text(text, search_text, case_sensitive,
\* patt) as at line 299, unless the compilation raised.
PF_FindMatches ==
    /\ pf_pc = "find_matches"
    /\ LET p == _compile_pattern(pf_in.search_text, pf_in.case_sensitive, pf_in.use_regex)
       IN IF p = CompileError
          THEN /\ pf_pc' = "raised"
               /\ pf_out' = <<>>
          ELSE /\ pf_pc' = "matched"
               /\ pf_out' = _find_matches_in_text(pf_in.text, pf_in.search_text,
                                                  pf_in.case_sensitive, p)
    /\ UNCHANGED <<inputs, app_vars, ui_queue, mp_vars, task_vars, progress_log, pf_in>>

NextMatch == PF_FindMatches

SpecMatch == InitMatch /\ [][NextMatch]_vars

\* n copies of the character c.
Pad(n, c) == [i \in 1 .. n |-> c]

\* Characters around a match: a letter, a newline, a carriage return.
PadChars == {"x", "\n", "\r"}
\* Context lengths: none, one character, the default.
Contexts == {0, 1, DefaultContext}

\* _make_snippet is called with a page text, the span of a match in it and
\* a context length.
InitSnippet ==
    /\ InitPure
    /\ pf_pc = "make_snippet"
    /\ \E n \in 0 .. MaxBefore, k \in 0 .. MaxMatch, m \in 0 .. MaxAfter :
       \E c, d \in PadChars, context \in Contexts :
           pf_in = [text |-> Pad(n, c) \o Pad(k, "a") \o Pad(m, d),
                    span |-> <<n, n + k>>,
                    context |-> context]
    /\ pf_out = <<>>

PF_MakeSnippet ==
    /\ pf_pc = "make_snippet"
    /\ pf_out' = _make_snippet(pf_in.text, pf_in.span, pf_in.context)
    /\ pf_pc' = "snipped"
    /\ UNCHANGED <<inputs, app_vars, ui_queue, mp_vars, task_vars, progress_log, pf_in>>

NextSnippet == PF_MakeSnippet

SpecSnippet == InitSnippet /\ [][NextSnippet]_vars

\* ------------------------------------------------ the scan of a document
\* The bytes of a document, as far as extract_text_per_page_fast reads
\* them, are a sequence of tokens:
\*   obj n     a header "n 0 obj"                      (_RE_OBJ)
\*   endobj    the keyword endobj
\*   page      the marker "/Type /Page"                (_RE_IS_PAGE)
\*   ref n     "/Contents n 0 R"                       (_RE_CONTENTS_SINGLE)
\*   stream n  "stream ... endstream" whose BT ... ET sections hold the text
\*             "a" (n = 1), "b" (n = 2) or no string at all (n = 0)
\*   arr       "/Contents [", the opening of the array form
\*   iref n    "n 0 R", not after "/Contents"          (_RE_INDIRECT)
\*   close     "]"
Tok(t, n) == [t |-> t, n |-> n]

ObjIds == {1, 2}

\* What stands between a header and the end of an object.
Bodies ==
    {<<>>, <<Tok("page", 0)>>, <<Tok("stream", 0)>>, <<Tok("stream", 1)>>}
    \cup {<<Tok("page", 0), Tok("ref", c)>> : c \in ObjIds}

\* One object as written in a file; a damaged one lacks its endobj.
RawObjects ==
    {<<Tok("obj", id)>> \o body \o (IF closed THEN <<Tok("endobj", 0)>> ELSE <<>>) :
        id \in ObjIds, body \in Bodies, closed \in BOOLEAN}

\* The documents of at most n objects.
RECURSIVE Documents(_)
Documents(n) ==
    IF n = 0 THEN {<<>>}
    ELSE LET shorter == Documents(n - 1)
         IN shorter \cup {d \o o : d \in shorter, o \in RawObjects}

\* A Python dict: the sequence of its (key, value) pairs in insertion order.
DictHas(d, k) == \E i \in 1 .. Len(d) : d[i][1] = k
DictGet(d, k) == d[CHOOSE i \in 1 .. Len(d) : d[i][1] = k][2]
DictKeys(d) == [i \in 1 .. Len(d) |-> d[i][1]]
\* A dict that keeps the value a key was first given.
DictSet_KeepFirst(d, k, v) == IF DictHas(d, k) THEN d ELSE Append(d, <<k, v>>)
\* d[k] = v: a key already present keeps its place and takes the new value.
DictSet(d, k, v) ==
    IF DictHas(d, k)
    THEN [i \in 1 .. Len(d) |-> IF d[i][1] = k THEN <<k, v>> ELSE d[i]]
    ELSE Append(d, <<k, v>>)

\* data.find(b"endobj", start): the place of the first endobj token after
\* place `after`, 0 if there is none.
RECURSIVE FindEndobj(_, _)
FindEndobj(data, after) ==
    IF after >= Len(data) THEN 0
    ELSE IF data[after + 1].t = "endobj" THEN after + 1
    ELSE FindEndobj(data, after + 1)

\* lines 178-186: the loop over the headers, from place i on.
RECURSIVE ScanObjects(_, _, _)
ScanObjects(data, i, objects) ==
    IF i > Len(data) THEN objects
    ELSE IF data[i].t # "obj" THEN ScanObjects(data, i + 1, objects)
    ELSE LET end == FindEndobj(data, i)
         IN IF end = 0 THEN ScanObjects(data, i + 1, objects)
            ELSE ScanObjects(data, i + 1,
                             DictSet(objects, data[i].n, SubSeq(data, i + 1, end - 1)))

\* _RE_IS_PAGE.search(body)
IsPage(body) == \E i \in 1 .. Len(body) : body[i].t = "page"

\* The least place of the set, a set of places.
FirstOf(S) == CHOOSE i \in S : \A j \in S : i <= j

\* The ids of the "n 0 R" tokens of a token sequence, in order.
RECURSIVE IndirectRefs(_)
IndirectRefs(toks) ==
    IF toks = <<>> THEN <<>>
    ELSE (IF Head(toks).t = "iref" THEN <<Head(toks).n>> ELSE <<>>)
         \o IndirectRefs(Tail(toks))

\* A contents list that takes the array also when the single form matches.
ContentsOf_ArrayFirst(body) ==
    LET refs == {i \in 1 .. Len(body) : body[i].t = "ref"}
        opens == {i \in 1 .. Len(body) :
                     /\ body[i].t = "arr"
                     /\ \E j \in i + 1 .. Len(body) : body[j].t = "close"}
    IN IF opens # {}
       THEN LET open == FirstOf(opens)
                close == FirstOf({j \in open + 1 .. Len(body) : body[j].t = "close"})
            IN IndirectRefs(SubSeq(body, open + 1, close - 1))
       ELSE IF refs # {} THEN <<body[FirstOf(refs)].n>>
       ELSE <<>>

\* lines 194-203: the contents list of a page body: the single form if
\* _RE_CONTENTS_SINGLE matches, else the array form if _RE_CONTENTS_ARRAY
\* matches (an opening with a "]" after it; the array ends at the first).
ContentsOf(body) ==
    LET refs == {i \in 1 .. Len(body) : body[i].t = "ref"}
        opens == {i \in 1 .. Len(body) :
                     /\ body[i].t = "arr"
                     /\ \E j \in i + 1 .. Len(body) : body[j].t = "close"}
    IN IF refs # {} THEN <<body[FirstOf(refs)].n>>
       ELSE IF opens # {}
       THEN LET open == FirstOf(opens)
                close == FirstOf({j \in open + 1 .. Len(body) : body[j].t = "close"})
            IN IndirectRefs(SubSeq(body, open + 1, close - 1))
       ELSE <<>>

\* lines 189-193: pages, the ids of the page objects in the order of the dict.
PageOids(objects) ==
    LET IsPageEntry(e) == IsPage(e[2]) IN DictKeys(SelectSeq(objects, IsPageEntry))

\* _extract_text_from_content_stream of each stream of an object, the empty
\* texts dropped (lines 213-216).
StreamText(n) == IF n = 1 THEN <<"a">> ELSE <<"b">>
RECURSIVE StreamTexts(_)
StreamTexts(obj_bytes) ==
    IF obj_bytes = <<>> THEN <<>>
    ELSE (IF Head(obj_bytes).t = "stream" /\ Head(obj_bytes).n > 0
          THEN <<StreamText(Head(obj_bytes).n)>> ELSE <<>>)
         \o StreamTexts(Tail(obj_bytes))

\* "\n".join(texts)
RECURSIVE JoinLines(_)
JoinLines(texts) ==
    IF texts = <<>> THEN <<>>
    ELSE IF Len(texts) = 1 THEN texts[1]
    ELSE texts[1] \o <<"\n">> \o JoinLines(Tail(texts))

\* lines 208-217: the texts of the contents objects of one page.
RECURSIVE PageTexts(_, _)
PageTexts(objects, contents) ==
    IF contents = <<>> THEN <<>>
    ELSE (IF DictHas(objects, Head(contents))
          THEN StreamTexts(DictGet(objects, Head(contents)))
          ELSE <<>>)
         \o PageTexts(objects, Tail(contents))

\* lines 205-219: result, filled page by page with page_index counting up.
RECURSIVE NumberPages(_, _, _, _)
NumberPages(objects, pages, page_index, result) ==
    IF pages = <<>> THEN result
    ELSE NumberPages(objects, Tail(pages), page_index + 1,
                     DictSet(result, page_index,
                             JoinLines(PageTexts(objects,
                                                 ContentsOf(DictGet(objects, Head(pages)))))))

\* The bytes read from a file (mmap refuses an empty one).
InitScan ==
    /\ InitPure
    /\ pf_pc = "scan_objects"
    /\ pf_in \in Documents(MaxObjects) \ {<<>>}
    /\ pf_out = [objects |-> <<>>, pages |-> <<>>, result |-> <<>>]

\* lines 178-186
PF_ScanObjects ==
    /\ pf_pc = "scan_objects"
    /\ pf_out' = [pf_out EXCEPT !.objects = ScanObjects(pf_in, 1, <<>>)]
    /\ pf_pc' = "number_pages"
    /\ UNCHANGED <<inputs, app_vars, ui_queue, mp_vars, task_vars, progress_log, pf_in>>

\* lines 188-219
PF_NumberPages ==
    /\ pf_pc = "number_pages"
    /\ LET pages == PageOids(pf_out.objects)
       IN pf_out' = [pf_out EXCEPT !.pages = pages,
                                   !.result = NumberPages(pf_out.objects, pages, 1, <<>>)]
    /\ pf_pc' = "extracted"
    /\ UNCHANGED <<inputs, app_vars, ui_queue, mp_vars, task_vars, progress_log, pf_in>>

NextScan == PF_ScanObjects \/ PF_NumberPages

SpecScan == InitScan /\ [][NextScan]_vars

\* ---- One page and its contents objects ----
\* A document of one page object (id 1) and of the objects its /Contents
\* entry may list (ContentIds), each absent from the file, empty, a stream
\* without a string, or a stream with the text a or b.
MaxRefs == 2
ContentIds == {2, 3}
ContentKinds == {"absent", "empty", "notext", "a", "b"}

\* The /Contents entries of the page: what is written, and the ids it lists.
ContentsForms ==
    {[toks |-> <<>>, form |-> "none", listed |-> <<>>]}
    \cup {[toks |-> <<Tok("ref", c)>>, form |-> "single", listed |-> <<c>>] :
             c \in ContentIds}
    \cup {[toks |-> <<Tok("arr", 0)>> \o [i \in 1 .. Len(ids) |-> Tok("iref", ids[i])]
                     \o <<Tok("close", 0)>>,
            form |-> "array", listed |-> ids] : ids \in SeqsUpTo(ContentIds, MaxRefs)}
    \cup {[toks |-> <<Tok("arr", 0), Tok("iref", 2)>>, form |-> "open", listed |-> <<>>],
          [toks |-> <<Tok("arr", 0), Tok("iref", 2), Tok("close", 0), Tok("ref", 3)>>,
           form |-> "both", listed |-> <<3>>],
          [toks |-> <<Tok("ref", 2), Tok("arr", 0), Tok("iref", 3), Tok("close", 0)>>,
           form |-> "both", listed |-> <<2>>]}

ContentObject(c, kind) ==
    IF kind = "absent" THEN <<>>
    ELSE <<Tok("obj", c)>>
         \o (CASE kind = "empty" -> <<>>
               [] kind = "notext" -> <<Tok("stream", 0)>>
               [] kind = "a" -> <<Tok("stream", 1)>>
               [] OTHER -> <<Tok("stream", 2)>>)
         \o <<Tok("endobj", 0)>>

PageObject(form) ==
    <<Tok("obj", 1), Tok("page", 0)>> \o form.toks \o <<Tok("endobj", 0)>>

PageDocument(form, kind, page_first, ascending) ==
    LET streams == IF ascending
                   THEN ContentObject(2, kind[2]) \o ContentObject(3, kind[3])
                   ELSE ContentObject(3, kind[3]) \o ContentObject(2, kind[2])
    IN IF page_first THEN PageObject(form) \o streams
       ELSE streams \o PageObject(form)

\* lines 171-219: extract_text_per_page_fast on the bytes of a file.
ExtractPages(data) ==
    LET objects == ScanObjects(data, 1, <<>>)
    IN NumberPages(objects, PageOids(objects), 1, <<>>)

InitContents ==
    /\ InitPure
    /\ pf_pc = "extract_pages"
    /\ \E form \in ContentsForms, kind \in [ContentIds -> ContentKinds],
          page_first \in BOOLEAN, ascending \in BOOLEAN :
          pf_in = [data |-> PageDocument(form, kind, page_first, ascending),
                   form |-> form.form, listed |-> form.listed, kind |-> kind]
    /\ pf_out = <<>>

\* lines 171-219
PF_ExtractPages ==
    /\ pf_pc = "extract_pages"
    /\ pf_out' = ExtractPages(pf_in.data)
    /\ pf_pc' = "extracted"
    /\ UNCHANGED <<inputs, app_vars, ui_queue, mp_vars, task_vars, progress_log, pf_in>>

NextContents == PF_ExtractPages

SpecContents == InitContents /\ [][NextContents]_vars

\* ------------------------------------------------- _pdf_unescape_string
\* Bytes are the numbers 0 .. 255; a str is the sequence of its code points.

\* The byte an escape letter or an escaped delimiter stands for.
NamedEscape_Literal(esc) == esc
NamedEscape(esc) ==
    CASE esc = 110 -> 10
      [] esc = 114 -> 13
      [] esc = 116 -> 9
      [] esc = 98 -> 8
      [] esc = 102 -> 12
      [] OTHER -> esc

\* An octal run that takes every digit that follows.
RECURSIVE OctalRun_Unbounded(_, _, _)
OctalRun_Unbounded(b, j, k) ==
    IF j >= Len(b) \/ b[j + 1] \notin 48 .. 55 THEN 0
    ELSE 1 + OctalRun_Unbounded(b, j + 1, k)

\* How many of the bytes from offset j on are octal digits, at most k.
RECURSIVE OctalRun(_, _, _)
OctalRun(b, j, k) ==
    IF k = 0 \/ j >= Len(b) \/ b[j + 1] \notin 48 .. 55 THEN 0
    ELSE 1 + OctalRun(b, j + 1, k - 1)

\* int(bytes(oct_digits), 8)
RECURSIVE OctValue(_)
OctValue(digits) ==
    IF digits = <<>> THEN 0
    ELSE 8 * OctValue(SubSeq(digits, 1, Len(digits) - 1)) + (digits[Len(digits)] - 48)

\* lines 78-119: the loop, from offset i on, with the bytes put out so far.
\* bytearray.append raises for a value above 255, which the code passes over.
RECURSIVE UnescapeFrom(_, _, _)
UnescapeFrom(b, i, out) ==
    IF i >= Len(b) THEN out
    ELSE IF b[i + 1] = 92 /\ i + 1 < Len(b)
         THEN LET esc == b[i + 2]
              IN IF esc \in {40, 41, 92, 110, 114, 116, 98, 102}
                 THEN UnescapeFrom(b, i + 2, Append(out, NamedEscape(esc)))
                 ELSE IF esc \in 48 .. 55
                 THEN LET more == OctalRun(b, i + 2, 2)
                          value == OctValue(SubSeq(b, i + 2, i + 2 + more))
                      IN UnescapeFrom(b, i + 2 + more,
                                      IF value <= 255 THEN Append(out, value) ELSE out)
                 ELSE UnescapeFrom(b, i + 2, Append(out, esc))
         ELSE UnescapeFrom(b, i + 1, Append(out, b[i + 1]))

\* bytes.decode("utf-8"): the length of the well-formed sequence the bytes
\* begin with, 0 if they begin with none.
IsCont(x) == x \in 128 .. 191
Utf8Len(bs) ==
    LET lead == bs[1]
    IN IF lead < 128 THEN 1
       ELSE IF lead \in 194 .. 223 /\ Len(bs) >= 2 /\ IsCont(bs[2]) THEN 2
       ELSE IF /\ lead \in 224 .. 239 /\ Len(bs) >= 3 /\ IsCont(bs[2]) /\ IsCont(bs[3])
               /\ (lead = 224 => bs[2] >= 160) /\ (lead = 237 => bs[2] <= 159) THEN 3
       ELSE IF /\ lead \in 240 .. 244 /\ Len(bs) >= 4
               /\ IsCont(bs[2]) /\ IsCont(bs[3]) /\ IsCont(bs[4])
               /\ (lead = 240 => bs[2] >= 144) /\ (lead = 244 => bs[2] <= 143) THEN 4
       ELSE 0
CodePoint(bs, n) ==
    CASE n = 1 -> bs[1]
      [] n = 2 -> (bs[1] - 192) * 64 + (bs[2] - 128)
      [] n = 3 -> (bs[1] - 224) * 4096 + (bs[2] - 128) * 64 + (bs[3] - 128)
      [] OTHER -> (bs[1] - 240) * 262144 + (bs[2] - 128) * 4096
                  + (bs[3] - 128) * 64 + (bs[4] - 128)
RECURSIVE Utf8Decode(_)
Utf8Decode(bs) ==
    IF bs = <<>> THEN [ok |-> TRUE, s |-> <<>>]
    ELSE LET n == Utf8Len(bs)
         IN IF n = 0 THEN [ok |-> FALSE, s |-> <<>>]
            ELSE LET rest == Utf8Decode(SubSeq(bs, n + 1, Len(bs)))
                 IN [ok |-> rest.ok, s |-> <<CodePoint(bs, n)>> \o rest.s]

\* lines 120-123: UTF-8, else Latin-1 (each byte the character of its value).
DecodeBytes(out) == LET u == Utf8Decode(out) IN IF u.ok THEN u.s ELSE out

_pdf_unescape_string(b) == DecodeBytes(UnescapeFrom(b, 0, <<>>))

\* The octal digits of v, d of them.
RECURSIVE OctDigits(_, _)
OctDigits(v, d) == IF d = 0 THEN <<>> ELSE Append(OctDigits(v \div 8, d - 1), 48 + (v % 8))
RECURSIVE Pow8(_)
Pow8(d) == IF d = 0 THEN 1 ELSE 8 * Pow8(d - 1)

\* The escapes with the byte each stands for: the eight named ones, and
\* every byte value in octal with one, two or three digits.
EscapedForms ==
    {[esc |-> <<92, e[1]>>, value |-> e[2], octal |-> 0] :
        e \in {<<110, 10>>, <<114, 13>>, <<116, 9>>, <<98, 8>>, <<102, 12>>,
               <<40, 40>>, <<41, 41>>, <<92, 92>>}}
    \cup {form \in {[esc |-> <<92>> \o OctDigits(v, d), value |-> v, octal |-> d] :
                         v \in 0 .. 255, d \in 1 .. 3} :
              form.value < Pow8(form.octal)}

\* What may follow the escape in the string: nothing, the digits 3 and 8,
\* the letter a, the byte A9 (which continues a UTF-8 sequence).
Followers == {<<>>, <<51>>, <<56>>, <<97>>, <<169>>}

InitUnescape ==
    /\ InitPure
    /\ pf_pc = "unescape"
    /\ \E form \in EscapedForms, follow \in Followers :
           pf_in = [b |-> form.esc \o follow, value |-> form.value,
                    octal |-> form.octal, follow |-> follow]
    /\ pf_out = <<>>

PF_Unescape ==
    /\ pf_pc = "unescape"
    /\ pf_out' = _pdf_unescape_string(pf_in.b)
    /\ pf_pc' = "unescaped"
    /\ UNCHANGED <<inputs, app_vars, ui_queue, mp_vars, task_vars, progress_log, pf_in>>

NextUnescape == PF_Unescape

SpecUnescape == InitUnescape /\ [][NextUnescape]_vars

\* Byte strings made of at most MaxUnits units, each with the bytes it
\* stands for: the plain bytes a and 1; the octal escapes \7, \101, \377,
\* \303, \251, and \400, \777 whose values exceed 255; the escapes \x and
\* \8 of characters without a meaning; \n and \\; a backslash alone.
MaxUnits == 3
Unit(raw, bytes, kind) == [raw |-> raw, bytes |-> bytes, kind |-> kind]
EscapeUnits ==
    {Unit(<<97>>, <<97>>, "plain"), Unit(<<49>>, <<49>>, "plain"),
     Unit(<<92, 55>>, <<7>>, "octal"),
     Unit(<<92, 49, 48, 49>>, <<65>>, "octal"),
     Unit(<<92, 51, 55, 55>>, <<255>>, "octal"),
     Unit(<<92, 51, 48, 51>>, <<195>>, "octal"),
     Unit(<<92, 50, 53, 49>>, <<169>>, "octal"),
     Unit(<<92, 52, 48, 48>>, <<>>, "overflow"),
     Unit(<<92, 55, 55, 55>>, <<>>, "overflow"),
     Unit(<<92, 120>>, <<120>>, "other"),
     Unit(<<92, 56>>, <<56>>, "other"),
     Unit(<<92, 110>>, <<10>>, "named"),
     Unit(<<92, 92>>, <<92>>, "named"),
     Unit(<<92>>, <<92>>, "lone")}

\* A unit sequence reads back as written: a backslash alone stands last,
\* and no digit follows an octal escape of fewer than three digits.
ReadsAsWritten(units) ==
    \A i \in 1 .. Len(units) - 1 :
        /\ units[i].kind # "lone"
        /\ (units[i].kind = "octal" /\ Len(units[i].raw) < 4)
               => units[i + 1].raw[1] \notin 48 .. 55

RECURSIVE RawOf(_)
RawOf(units) == IF units = <<>> THEN <<>> ELSE Head(units).raw \o RawOf(Tail(units))

InitEscapes ==
    /\ InitPure
    /\ pf_pc = "unescape"
    /\ \E units \in SeqsUpTo(EscapeUnits, MaxUnits) :
          /\ ReadsAsWritten(units)
          /\ pf_in = [b |-> RawOf(units), units |-> units]
    /\ pf_out = <<>>

SpecEscapes == InitEscapes /\ [][NextUnescape]_vars

\* ---- _extract_text_from_content_stream (lines 160-169) ----
\* A content stream is the sequence of its bytes.

\* _RE_PAREN_STRING tried at the "(" at offset i of sec: the offset after
\* the first ")" that is not the second byte of a backslash pair, -1 if the
\* section ends first. j is the offset reached.
RECURSIVE ParenEnd(_, _)
ParenEnd(sec, j) ==
    IF j >= Len(sec) THEN -1
    ELSE IF sec[j + 1] = 41 THEN j + 1
    ELSE IF sec[j + 1] = 92
         THEN IF j + 1 < Len(sec) THEN ParenEnd(sec, j + 2) ELSE -1
    ELSE ParenEnd(sec, j + 1)

\* lines 165-168: _RE_PAREN_STRING.finditer(sec) from offset from on, each
\* match without its two parentheses, decoded.
RECURSIVE ParenStrings(_, _)
ParenStrings(sec, from) ==
    LET starts == {i \in from .. Len(sec) - 1 :
                      sec[i + 1] = 40 /\ ParenEnd(sec, i + 1) # -1}
    IN IF starts = {} THEN <<>>
       ELSE LET i == FirstOf(starts)
                end == ParenEnd(sec, i + 1)
            IN <<_pdf_unescape_string(Slice(sec, i + 1, end - 1))>>
               \o ParenStrings(sec, end)

\* lines 163-164: _RE_BT_ET.finditer(data) from offset from on: the next BT
\* and the nearest ET after it enclose a section.
RECURSIVE TextChunks(_, _)
TextChunks(data, from) ==
    LET bt == Find(data, <<66, 84>>, from)
        et == IF bt = -1 THEN -1 ELSE Find(data, <<69, 84>>, bt + 2)
    IN IF et = -1 THEN <<>>
       ELSE ParenStrings(Slice(data, bt + 2, et), 0) \o TextChunks(data, et + 2)

\* "".join(chunks)
RECURSIVE JoinChunks(_)
JoinChunks(chunks) ==
    IF chunks = <<>> THEN <<>> ELSE Head(chunks) \o JoinChunks(Tail(chunks))

_extract_text_from_content_stream(data) == JoinChunks(TextChunks(data, 0))

\* The streams: sequences of at most MaxItems operators and literal strings
\* with a space between two of them. The strings are abc, ET, BT and a\)b
\* (an escaped parenthesis); text is what a PDF reader shows for each.
MaxItems == 4
Operator(name) == [kind |-> name, raw |-> <<>>, text |-> <<>>]
Literal(raw, text) == [kind |-> "str", raw |-> raw, text |-> text]
StreamItems ==
    {Operator("BT"), Operator("ET"),
     Literal(<<97, 98, 99>>, <<97, 98, 99>>),
     Literal(<<69, 84>>, <<69, 84>>),
     Literal(<<66, 84>>, <<66, 84>>),
     Literal(<<97, 92, 41, 98>>, <<97, 41, 98>>)}

ItemBytes(item) ==
    CASE item.kind = "BT" -> <<66, 84>>
      [] item.kind = "ET" -> <<69, 84>>
      [] OTHER -> <<40>> \o item.raw \o <<41>>

RECURSIVE StreamBytes(_)
StreamBytes(items) ==
    IF items = <<>> THEN <<>>
    ELSE IF Len(items) = 1 THEN ItemBytes(items[1])
    ELSE ItemBytes(items[1]) \o <<32>> \o StreamBytes(Tail(items))

InitStream ==
    /\ InitPure
    /\ pf_pc = "extract_text"
    /\ \E items \in SeqsUpTo(StreamItems, MaxItems) :
          pf_in = [items |-> items, data |-> StreamBytes(items)]
    /\ pf_out = <<>>

\* lines 160-169
PF_ExtractText ==
    /\ pf_pc = "extract_text"
    /\ pf_out' = _extract_text_from_content_stream(pf_in.data)
    /\ pf_pc' = "text_extracted"
    /\ UNCHANGED <<inputs, app_vars, ui_queue, mp_vars, task_vars, progress_log, pf_in>>

NextStream == PF_ExtractText

SpecStream == InitStream /\ [][NextStream]_vars

\* ------------------------------------------------------------ claims

\* C1: when a run is cancelled, the hits of every task that had completed
\* before the coordinator observed the cancellation (the futures the
\* completion loop was handed) are in the results main_processor returns.
C1_HitsKeptOnCancel ==
    \A r \in Runs :
        (mp_pc[r] = "returned" /\ cancel_event[r]) =>
            \A f \in yielded[r] : Range(task_res[r][f]) \subseteq Range(results[r])

\* C2 as stated: once the coordinator has observed the cancellation signal,
\* no call of extract_text_per_page_fast starts.
C2_NoExtractAfterObserved ==
    [][\A r \in Runs : \A f \in Files :
          (Observed(r) /\ task_pc[r][f] = "entered") => task_pc'[r][f] = "entered"]_vars

\* C2 amended: once the coordinator has set the run's cancel event, a file
\* task that has not yet passed its entry check never calls
\* extract_text_per_page_fast: it goes from queued straight to done.
C2_NoNewTaskAfterEventSet ==
    [][\A r \in Runs : \A f \in Files :
          (cancel_event[r] /\ task_pc[r][f] \in {"none", "queued"}) =>
              /\ task_pc'[r][f] \in {"none", "queued", "done"}
              /\ ~task_pages'[r][f].called]_vars

\* A readable file with hits whose task was gated by the cancel event.
C2_Witness ==
    \E r \in Runs : \E f \in Files :
        /\ cancel_event[r]
        /\ task_pc[r][f] = "done"
        /\ ~task_pages[r][f].called
        /\ FileHits(f) # <<>>

\* C3: once the fatal condition of a run has been delivered to the
\* application, the hits and errors the run had accumulated are in the
\* application's collections.
C3_PartialResultsOnFatal ==
    \A r \in Runs :
        "fatal" \in Range(delivered[r]) =>
            /\ Range(results[r]) \subseteq Range(app_results)
            /\ Range(errors[r]) \subseteq Range(app_errors)

\* The search box holds a malformed regular expression and regex is on.
InvalidRegex == var_regex /\ ~RegexSyntaxOk(var_search)

\* Messages of run r in the UI queue.
QueuedKinds(r) == {ui_queue[i].kind : i \in {j \in 1 .. Len(ui_queue) : ui_queue[j].run = r}}

\* C4: a run requested with use_regex and a malformed pattern fails before
\* any work: no task is submitted, no file is opened, no progress event is
\* emitted, the run never enters the pool phase, and the only thing it ever
\* reports is the fatal condition.
C4_PatternErrorBeforeWork ==
    \A r \in Runs :
        (mp_pc[r] # "none" /\ InvalidRegex) =>
            /\ mp_pc[r] \in {"compile", "raised", "finished"}
            /\ submitted[r] = 0
            /\ done[r] = 0
            /\ \A f \in Files : task_pc[r][f] = "none" /\ ~task_pages[r][f].called
            /\ QueuedKinds(r) \subseteq {"fatal"}
            /\ delivered[r] \in {<<>>, <<"fatal">>}

\* The malformed pattern has been reported as the fatal condition.
C4_Witness ==
    \E r \in Runs : InvalidRegex /\ mp_pc[r] = "finished" /\ delivered[r] = <<"fatal">>

\* C5: the hits a cancelled run returns are a subset of the hits of the
\* undisturbed run over the same files, and a run whose coordinator has
\* observed the cancellation returns normally: it never raises, and the
\* fatal condition is never reported for it.
C5_CancelledHitsSubset ==
    \A r \in Runs :
        /\ (mp_pc[r] = "returned" /\ cancel_event[r]) =>
               Range(results[r]) \subseteq FullRunHits(r)
        /\ Observed(r) =>
               /\ mp_pc[r] \in {"set_event", "shutdown", "returned", "finished"}
               /\ "fatal" \notin QueuedKinds(r)
               /\ "fatal" \notin Range(delivered[r])

\* A cancelled run has returned some, but not all, of the full run's hits.
C5_Witness ==
    \E r \in Runs :
        /\ mp_pc[r] = "returned"
        /\ cancel_event[r]
        /\ results[r] # <<>>
        /\ Range(results[r]) # FullRunHits(r)

\* C6: a run that is not cancelled returns the hit set and the error set of
\* the undisturbed run, whatever the pool size (cpu_count) and whatever
\* the order in which the tasks completed.
C6_ResultsIndependentOfPool ==
    \A r \in Runs :
        (mp_pc[r] = "returned" /\ ~cancel_event[r]) =>
            /\ Range(results[r]) = FullRunHits(r)
            /\ Range(errors[r]) = FullRunErrors(r)

\* A pool smaller than the file list, hits and errors returned, and the
\* first hit collected is not of the first file submitted.
C6_Witness ==
    \E r \in Runs :
        /\ mp_pc[r] = "returned"
        /\ ~cancel_event[r]
        /\ max_workers < Len(run_files[r])
        /\ results[r] # <<>>
        /\ errors[r] # <<>>
        /\ results[r][1].file # run_files[r][1]

CountFor(seq, f) == Cardinality({i \in 1 .. Len(seq) : seq[i].file = f})
SelectFile(seq, f) == LET OfFile(h) == h.file = f IN SelectSeq(seq, OfFile)

\* C8: a file whose processing raises yields exactly one error record and
\* no hit, in its task and in the results of a run that is not cancelled,
\* and every other file of that run has all its hits and no error.
C8_FileFailureIsolated ==
    \A r \in Runs :
        /\ \A f \in Files :
               (task_pc[r][f] = "done" /\ task_pages[r][f].called /\ ~task_pages[r][f].ok) =>
                   task_err[r][f] = <<ErrorRecord(f)>> /\ task_res[r][f] = <<>>
        /\ (/\ mp_pc[r] = "returned"
            /\ ~cancel_event[r]
            /\ \E g \in FileSet(r) : ~Readable(g)) =>
               \A f \in FileSet(r) :
                   IF Readable(f)
                   THEN SelectFile(results[r], f) = FileHits(f) /\ CountFor(errors[r], f) = 0
                   ELSE CountFor(errors[r], f) = 1 /\ CountFor(results[r], f) = 0

\* A run with an unreadable file has returned its one error and the hits of
\* the other files.
C8_Witness ==
    \E r \in Runs :
        /\ mp_pc[r] = "returned"
        /\ ~cancel_event[r]
        /\ errors[r] = <<ErrorRecord(2)>>
        /\ \E f \in FileSet(r) : f # 2 /\ CountFor(results[r], f) > 0

\* The run has left its completion loop with the result of every future
\* collected.
Completed(r) == mp_pc[r] \in {"shutdown", "returned"} /\ done[r] = Len(run_files[r])

\* C9 as stated: a run leaves its loop as Completed only if every task has
\* resolved and cancellation was never requested during the run.
C9_CompletedNeverRequested ==
    \A r \in Runs :
        Completed(r) =>
            /\ \A f \in FileSet(r) : task_pc[r][f] = "done"
            /\ ~ui_cancel

\* C9 amended: a run leaves its loop as Completed only if every task has
\* resolved, as_completed has yielded every future, and no poll of the
\* cancellation flag found it set (the run's cancel event was never set).
C9_CompletedNeverObserved ==
    \A r \in Runs :
        Completed(r) =>
            /\ \A f \in FileSet(r) : task_pc[r][f] = "done"
            /\ yielded[r] = FileSet(r)
            /\ ~cancel_event[r]

\* A Completed run during which cancellation was requested.
C9_Witness == \E r \in Runs : Completed(r) /\ mp_pc[r] = "returned" /\ ui_cancel

\* C10: the run's results, errors and done change only in the collect step
\* of the completion loop, which changes no task's list; a task's res and
\* err change only in a step of that task, which changes no other task's
\* list.
C10_SingleWriter ==
    [][\A r \in Runs :
          /\ (results'[r] # results[r] \/ errors'[r] # errors[r] \/ done'[r] # done[r]) =>
                 /\ mp_pc[r] = "collect"
                 /\ mp_pc'[r] = "wait"
                 /\ task_res' = task_res
                 /\ task_err' = task_err
          /\ \A f \in Files :
                 (task_res'[r][f] # task_res[r][f] \/ task_err'[r][f] # task_err[r][f]) =>
                     /\ task_pc[r][f] \in {"entered", "paging"}
                     /\ \A r2 \in Runs : \A g \in Files :
                            (r2 # r \/ g # f) =>
                                /\ task_res'[r2][g] = task_res[r2][g]
                                /\ task_err'[r2][g] = task_err[r2][g]]_vars

\* Two tasks in their page loops, one already holding hits, while the
\* coordinator has collected a result.
C10_Witness ==
    \E r \in Runs : \E f, g \in Files :
        /\ f # g
        /\ task_pc[r][f] = "paging"
        /\ task_res[r][f] # <<>>
        /\ task_pc[r][g] = "paging"
        /\ done[r] > 0

StartsAscending(spans) ==
    \A i, j \in 1 .. Len(spans) : i < j => spans[i][1] <= spans[j][1]
StartsStrictlyAscending(spans) ==
    \A i, j \in 1 .. Len(spans) : i < j => spans[i][1] < spans[j][1]

\* The hits of file f on page p in a hit sequence.
SelectPage(seq, f, p) ==
    LET OfPage(h) == h.file = f /\ h.page = p IN SelectSeq(seq, OfPage)

\* In the returned hit sequence the hits of a file are in ascending page
\* number, and those of one page are the hits of the page's spans, one per
\* span in the order of the spans, which satisfies InOrder.
HitsOrdered(r, InOrder(_)) ==
    \A f \in FileSet(r) :
        LET hs == SelectFile(results[r], f)
            pgs == PagesOnDisk(f)
        IN /\ \A i, j \in 1 .. Len(hs) : i < j => hs[i].page <= hs[j].page
           /\ \A i \in 1 .. Len(hs) : hs[i].page \in 1 .. Len(pgs)
           /\ \A p \in 1 .. Len(pgs) :
                  LET on_page == SelectPage(results[r], f, p)
                  IN on_page # <<>> =>
                         /\ on_page = PageHits(f, p, pgs[p], var_search, var_case, patt[r])
                         /\ InOrder(_find_matches_in_text(pgs[p], var_search, var_case,
                                                          patt[r]))

\* C11 as stated: in the hit sequence main_processor returns, the hits of
\* one file are in ascending page number and, within a page, in strictly
\* ascending match start offset.
C11_StrictStartOrder ==
    \A r \in Runs : mp_pc[r] = "returned" => HitsOrdered(r, StartsStrictlyAscending)

\* C11 as the code has it: in the hit sequence main_processor returns, the
\* hits of one file are in ascending page number and, within a page, in
\* ascending match start offset, strictly so in a literal search; a regular
\* expression that matches the empty string may give two hits the same
\* start offset.
C11_HitsInPageThenStartOrder ==
    \A r \in Runs :
        mp_pc[r] = "returned" =>
            /\ HitsOrdered(r, StartsAscending)
            /\ patt[r] = NoPattern => HitsOrdered(r, StartsStrictlyAscending)

\* A returned run whose hit sequence begins with a hit of file 3 and holds
\* hits of both pages of file 1, several on one page.
C11_Witness ==
    \E r \in Runs :
        /\ mp_pc[r] = "returned"
        /\ results[r] # <<>>
        /\ results[r][1].file = 3
        /\ Len(SelectPage(results[r], 1, 1)) > 1
        /\ SelectPage(results[r], 1, 2) # <<>>
        /\ patt[r] = NoPattern

\* The futures the completion loop has been handed, but for the one its
\* body holds.
Handled(r) == yielded[r] \ {cur_fut[r]}

\* C12: the progress events of a run are done = 0, 1, 2, ... in this order,
\* the first before any file is submitted and one more for each completed
\* file the completion loop has handled (the future on which the loop
\* observes a cancellation gets none); done never exceeds total; when a run
\* that was not cancelled returns, its last event has done = total.
C12_ProgressCountsCompletions ==
    \A r \in Runs :
        LET log == progress_log[r]
            total == Len(run_files[r])
        IN /\ log = [i \in 1 .. Len(log) |-> i - 1]
           /\ \A i \in 1 .. Len(log) : log[i] <= total
           /\ submitted[r] > 0 => log # <<>>
           /\ log # <<>> =>
                  /\ Len(log) = done[r] + 1
                  /\ done[r] = Cardinality(Handled(r)) - (IF cancel_event[r] THEN 1 ELSE 0)
                  /\ \A f \in yielded[r] : task_pc[r][f] = "done"
           /\ (mp_pc[r] = "returned" /\ ~cancel_event[r]) =>
                  (log # <<>> /\ log[Len(log)] = total)

\* A run over several files that returned without a cancellation, one of
\* its files having failed.
C12_Witness ==
    \E r \in Runs :
        /\ mp_pc[r] = "returned"
        /\ ~cancel_event[r]
        /\ Len(run_files[r]) > 1
        /\ errors[r] # <<>>
        /\ progress_log[r][Len(progress_log[r])] = Len(run_files[r])

WellFormed(spans) == \A i \in 1 .. Len(spans) : spans[i][1] <= spans[i][2]
NonOverlapping(spans) ==
    \A i, j \in 1 .. Len(spans) : i < j => spans[i][2] <= spans[j][1]

\* C13 as stated: the spans _find_matches_in_text returns have
\* start <= end, are in ascending start order and are pairwise
\* non-overlapping, in a literal and in a regular-expression search.
C13_SpansNeverOverlap ==
    pf_pc = "matched" =>
        /\ WellFormed(pf_out)
        /\ StartsAscending(pf_out)
        /\ NonOverlapping(pf_out)

\* C13 as the code has it: the spans have start <= end and are in
\* ascending start order; those of a regular-expression search are pairwise
\* non-overlapping; those of a literal search have strictly ascending
\* starts and the same length, and may overlap.
C13_SpansOrdered ==
    pf_pc = "matched" =>
        /\ WellFormed(pf_out)
        /\ StartsAscending(pf_out)
        /\ pf_in.use_regex => NonOverlapping(pf_out)
        /\ ~pf_in.use_regex =>
               /\ StartsStrictlyAscending(pf_out)
               /\ \A i, j \in 1 .. Len(pf_out) :
                      pf_out[i][2] - pf_out[i][1] = pf_out[j][2] - pf_out[j][1]

\* A regular-expression search that found an empty match and a non-empty
\* one next to each other.
C13_Witness ==
    /\ pf_pc = "matched"
    /\ pf_in.use_regex
    /\ \E i \in 1 .. Len(pf_out) - 1 :
           /\ pf_out[i][1] < pf_out[i][2]
           /\ pf_out[i + 1] = <<pf_out[i][2], pf_out[i][2]>>

\* The spans [i, j) of the text that equal the search text, both lower-cased
\* when the search is case-insensitive.
Occurrences(text, search_text, case_sensitive) ==
    {<<i, j>> \in (0 .. Len(text)) \X (0 .. Len(text)) :
        /\ i <= j
        /\ IF case_sensitive THEN Slice(text, i, j) = search_text
           ELSE Lower(Slice(text, i, j)) = Lower(search_text)}

\* C14: in a literal search _find_matches_in_text reports exactly the
\* spans of the page text where the search text occurs (compared
\* lower-cased in a case-insensitive search), each once, overlapping ones
\* included.
C14_LiteralSpansAreOccurrences ==
    (pf_pc = "matched" /\ ~pf_in.use_regex) =>
        /\ Range(pf_out) = Occurrences(pf_in.text, pf_in.search_text, pf_in.case_sensitive)
        /\ Len(pf_out) = Cardinality(Range(pf_out))

\* C15: the snippet is, between its markers, the page text from at most
\* FixedLookBack (10) characters before the match, whatever the context
\* length, to at most context characters after it, with newlines and
\* carriage returns replaced by spaces.
C15_FixedLookBackWindow ==
    pf_pc = "snipped" =>
        LET start == Max(0, pf_in.span[1] - FixedLookBack)
            end == Min(Len(pf_in.text), pf_in.span[2] + pf_in.context)
        IN \E lead, trail \in {<<>>, Ellipsis} :
               pf_out = lead \o Flatten(Slice(pf_in.text, start, end)) \o trail

\* C16: the snippet is the leading marker exactly when its window does not
\* start at offset 0, then the window's text, then the trailing marker
\* exactly when the window does not reach the end of the text; a match at
\* offset 0 has no leading marker and a match ending at the end of the
\* text has no trailing marker.
C16_MarkersWhereTruncated ==
    pf_pc = "snipped" =>
        LET start == Max(0, pf_in.span[1] - pf_in.context)
            end == Min(Len(pf_in.text), pf_in.span[2] + pf_in.context)
            body == Flatten(Slice(pf_in.text, start, end))
        IN /\ pf_out = (IF start > 0 THEN Ellipsis ELSE <<>>) \o body
                       \o (IF end < Len(pf_in.text) THEN Ellipsis ELSE <<>>)
           /\ pf_in.span[1] = 0 => SubSeq(pf_out, 1, Len(body)) = body
           /\ pf_in.span[2] = Len(pf_in.text) =>
                  SubSeq(pf_out, Len(pf_out) - Len(body) + 1, Len(pf_out)) = body

\* A snippet of default context cut at both ends.
C16_Witness ==
    /\ pf_pc = "snipped"
    /\ pf_in.context = DefaultContext
    /\ pf_in.span[1] > DefaultContext
    /\ pf_in.span[2] + DefaultContext < Len(pf_in.text)
    /\ Len(pf_out) = (pf_in.span[2] - pf_in.span[1]) + 2 * DefaultContext + 2 * Len(Ellipsis)

\* Every hit of the list is the hit of a match found in the text of its own
\* page alone.
HitsComeFromOwnPage(hits, r) ==
    \A i \in 1 .. Len(hits) :
        LET f == hits[i].file
            pgs == PagesOnDisk(f)
        IN /\ hits[i].page \in 1 .. Len(pgs)
           /\ hits[i] \in Range(PageHits(f, hits[i].page, pgs[hits[i].page],
                                         var_search, var_case, patt[r]))

\* The spans of the matches behind the hits of the list lie inside the text
\* of the hit's page.
SpansInsidePage(hits, r) ==
    \A i \in 1 .. Len(hits) :
        LET text == PagesOnDisk(hits[i].file)[hits[i].page]
            spans == _find_matches_in_text(text, var_search, var_case, patt[r])
        IN \A k \in 1 .. Len(spans) :
               /\ 0 <= spans[k][1]
               /\ spans[k][1] <= spans[k][2]
               /\ spans[k][2] <= Len(text)

\* C17: every hit a task holds comes from a match inside the text of one
\* page: the match is found in that page's text alone and its span
\* satisfies 0 <= start <= end <= length of the page's text.
C17_HitInsideOnePage ==
    \A r \in Runs : \A f \in Files :
        /\ HitsComeFromOwnPage(task_res[r][f], r)
        /\ SpansInsidePage(task_res[r][f], r)

\* The places of the headers of object id that have an endobj after them.
ClosedHeaders(data, id) ==
    {i \in 1 .. Len(data) :
        /\ data[i] = Tok("obj", id)
        /\ \E j \in i + 1 .. Len(data) : data[j].t = "endobj"}
\* What stands between the header at place i and the next endobj.
BodyAt(data, i) ==
    LET end == CHOOSE j \in i + 1 .. Len(data) :
                   /\ data[j].t = "endobj"
                   /\ \A k \in i + 1 .. j - 1 : data[k].t # "endobj"
    IN SubSeq(data, i + 1, end - 1)
Greatest(S) == CHOOSE i \in S : \A j \in S : j <= i

\* The header whose body the object map holds for id.
KeptAt(data, id) == Greatest(ClosedHeaders(data, id))

\* C18: the page numbers extract_text_per_page_fast returns are exactly
\* 1..N, N being the number of objects of the map whose body carries the
\* page marker; the pages are numbered in the order in which the scan of
\* the document meets their dictionaries, also when an id occurs more than
\* once; a page without text has its number all the same.
C18_PagesNumberedInScanOrder ==
    pf_pc = "extracted" =>
        LET objs == pf_out.objects
            pages == pf_out.pages
            page_ids == {id \in ObjIds : DictHas(objs, id) /\ IsPage(DictGet(objs, id))}
            N == Cardinality(page_ids)
        IN /\ DictKeys(pf_out.result) = [k \in 1 .. N |-> k]
           /\ Len(pages) = N
           /\ Range(pages) = page_ids
           /\ \A a, b \in 1 .. Len(pages) :
                  a < b => KeptAt(pf_in, pages[a]) < KeptAt(pf_in, pages[b])

\* C20: the object map holds an entry for an id exactly when a header of
\* that id has an endobj after it (a header without one adds nothing), one
\* entry per id, and the entry is what stands between the last such header
\* and the next endobj after it.
C20_ObjectMapKeepsLastBody ==
    pf_pc \in {"number_pages", "extracted"} =>
        LET objs == pf_out.objects
        IN /\ \A a, b \in 1 .. Len(objs) : objs[a][1] = objs[b][1] => a = b
           /\ \A a \in 1 .. Len(objs) : objs[a][1] \in ObjIds
           /\ \A id \in ObjIds :
                  /\ DictHas(objs, id) <=> ClosedHeaders(pf_in, id) # {}
                  /\ DictHas(objs, id) =>
                         DictGet(objs, id) = BodyAt(pf_in, KeptAt(pf_in, id))

\* A scanned document in which an id occurs twice with different bodies and
\* another header has no endobj after it.
C20_Witness ==
    /\ pf_pc = "number_pages"
    /\ \E id \in ObjIds : \E i, j \in ClosedHeaders(pf_in, id) :
           /\ i < j
           /\ BodyAt(pf_in, i) # BodyAt(pf_in, j)
    /\ \E i \in 1 .. Len(pf_in) :
           /\ pf_in[i].t = "obj"
           /\ i \notin ClosedHeaders(pf_in, pf_in[i].n)

IsAscii(bs) == \A i \in 1 .. Len(bs) : bs[i] < 128

\* C19 as stated: decoding an escape (one of the named ones, or a byte
\* value in octal) gives exactly the byte it stands for, also when
\* characters such as digits follow the escape.
C19_EscapeRoundTrip ==
    (pf_pc = "unescaped" /\ IsAscii(pf_in.follow)) =>
        pf_out = <<pf_in.value>> \o pf_in.follow

\* C19 as the code has it: decoding an escape gives exactly the byte it
\* stands for, followed by what follows the escape, provided an octal
\* escape of fewer than three digits is not followed by an octal digit, and
\* provided the byte and what follows are not together a UTF-8 sequence of
\* several bytes.
C19_EscapeRoundTripDelimited ==
    pf_pc = "unescaped" =>
        LET delimited == \/ pf_in.octal \in {0, 3}
                         \/ pf_in.follow = <<>>
                         \/ pf_in.follow[1] \notin 48 .. 55
            merged == /\ pf_in.value >= 128
                      /\ Utf8Decode(<<pf_in.value>> \o pf_in.follow).ok
        IN (delimited /\ ~merged) => pf_out = <<pf_in.value>> \o pf_in.follow

\* A byte above 127 written with three octal digits and followed by the
\* digit 3, decoded to that byte and the digit.
C19_Witness ==
    /\ pf_pc = "unescaped"
    /\ pf_in.octal = 3
    /\ pf_in.value > 127
    /\ pf_in.follow = <<51>>
    /\ pf_out = <<pf_in.value, 51>>

\* The full hits of the first k pages of file f, for the pattern of run r.
LeadingPagesHits(r, f, k) ==
    HitsFromPage(f, SubSeq(PagesOnDisk(f), 1, k), 1, patt[r])

\* C21: a file task looks at the cancellation signal before each page and,
\* once it has seen it set, adds no hit; a page it begins it scans to the
\* end. So the hits a task holds, and returns, are exactly the full hits of
\* the pages before the one it stands at, and it stops before the last page
\* only with the signal set.
C21_HitsOfLeadingPages ==
    [][\A r \in Runs : \A f \in Files :
          /\ cancel_event[r] => task_res'[r][f] = task_res[r][f]
          /\ IF task_pages'[r][f].called /\ task_pages'[r][f].ok
             THEN /\ task_res'[r][f] = LeadingPagesHits(r, f, task_page'[r][f] - 1)
                  /\ (task_pc'[r][f] = "done"
                      /\ task_page'[r][f] <= Len(PagesOnDisk(f))) => cancel_event'[r]
             ELSE task_res'[r][f] = <<>>]_vars

\* A task that scanned the first of its two pages, found hits, then saw the
\* signal and returned.
C21_Witness ==
    \E r \in Runs : \E f \in Files :
        /\ task_pc[r][f] = "done"
        /\ task_page[r][f] = 2
        /\ Len(PagesOnDisk(f)) = 2
        /\ task_res[r][f] # <<>>
        /\ cancel_event[r]

\* The text of one content object of the kind written into the file.
KindText(kind) ==
    CASE kind = "a" -> <<"a">> [] kind = "b" -> <<"b">> [] OTHER -> <<>>

\* The texts of the listed objects, in the listed order, with a newline
\* between two texts; an object without text contributes nothing.
RECURSIVE ListedText(_, _)
ListedText(listed, kind) ==
    IF listed = <<>> THEN <<>>
    ELSE LET first == KindText(kind[Head(listed)])
             rest == ListedText(Tail(listed), kind)
         IN IF first = <<>> THEN rest
            ELSE IF rest = <<>> THEN first
            ELSE first \o <<"\n">> \o rest

\* C22: the page's content ids are the single reference after /Contents when
\* that form is present, otherwise the references of the /Contents array in
\* array order; the page text is the texts of those objects in the listed
\* order with a newline between them, and a listed id that the file does not
\* hold is skipped: the extraction always returns, with exactly one page.
C22_PageTextFollowsContents ==
    /\ [](pf_pc = "extracted"
          => pf_out = <<(<<1, ListedText(pf_in.listed, pf_in.kind)>>)>>)
    /\ [][pf_pc = "extract_pages" => pf_pc' = "extracted"]_vars

\* An array that lists object 3 before object 2 gives the text of 3, a
\* newline, the text of 2.
C22_Witness ==
    /\ pf_pc = "extracted"
    /\ pf_in.form = "array"
    /\ pf_in.listed = <<3, 2>>
    /\ pf_in.kind[2] = "a" /\ pf_in.kind[3] = "b"
    /\ pf_out = <<(<<1, <<"b", "\n", "a">> >>)>>

\* The text of the literal strings that stand between a BT operator and
\* its ET operator, in stream order: items from place i on, inside telling
\* whether an open BT whose ET is still to come precedes.
RECURSIVE TextInsideBTET(_, _, _)
TextInsideBTET(items, i, inside) ==
    IF i > Len(items) THEN <<>>
    ELSE LET item == items[i]
         IN IF item.kind = "BT"
            THEN TextInsideBTET(items, i + 1,
                                inside \/ \E j \in i + 1 .. Len(items) : items[j].kind = "ET")
            ELSE IF item.kind = "ET" THEN TextInsideBTET(items, i + 1, FALSE)
            ELSE (IF inside THEN item.text ELSE <<>>)
                 \o TextInsideBTET(items, i + 1, inside)

\* C23: the extracted text is the decoded literal strings between a BT
\* operator and its ET operator, each in full (also a string that holds the
\* letters ET or an escaped parenthesis), nothing from outside those regions,
\* concatenated in stream order without a separator.
C23_TextOfBTETStrings ==
    pf_pc = "text_extracted" => pf_out = TextInsideBTET(pf_in.items, 1, FALSE)

\* The bytes the units of a string stand for, one unit after the other.
RECURSIVE BytesOf(_)
BytesOf(units) == IF units = <<>> THEN <<>> ELSE Head(units).bytes \o BytesOf(Tail(units))

\* C24: _pdf_unescape_string returns for every byte string, and what it
\* returns is the decoding of these bytes: for an octal escape of at most
\* three digits the byte of that value, nothing for an octal value above
\* 255 (the bytes after it still decoded), the character itself for any
\* other escaped character, a backslash for a backslash alone at the end.
C24_EscapesDecodedOrSkipped ==
    /\ [](pf_pc = "unescaped" => pf_out = DecodeBytes(BytesOf(pf_in.units)))
    /\ [][pf_pc = "unescape" => pf_pc' = "unescaped"]_vars

\* \777 then \101 then the digit 1: the value 511 gives no byte, the
\* escape after it takes three digits and gives A, the digit stays.
C24_Witness ==
    /\ pf_pc = "unescaped"
    /\ pf_in.b = <<92, 55, 55, 55, 92, 49, 48, 49, 49>>
    /\ pf_out = <<65, 49>>

\* The runs whose worker thread was started and whose terminal result
\* (result_all or fatal) the UI has not handled yet.
InProgress == {r \in Runs : mp_pc[r] # "none" /\ delivered[r] = <<>>}

\* C25: at most one run is in progress at any time: no worker thread is
\* started while an earlier run has not yet delivered its terminal result.
C25_AtMostOneRunInProgress ==
    Cardinality(InProgress) <= 1

\* The run has entered main_processor and has not left its loop, and
\* as_completed has still to hand over some future: the loop will poll
\* cancel_flag again before it collects that result.
Uncollected(r) ==
    /\ mp_pc[r] \in {"compile", "progress0", "submit", "wait", "collect", "set_event"}
    /\ yielded[r] # FileSet(r)

\* The run observed the cancellation (it set its cancel_event and left the
\* loop), or a fatal condition ended it first.
StoppedCollecting(r) ==
    cancel_event[r] \/ mp_pc[r] \in {"unwind", "raised"}

\* C26: a cancellation request is never lost: while a run has results not
\* yet collected, no step clears the shared flag once it is set, and under
\* fair scheduling the run eventually observes the flag and stops
\* collecting.
C26_CancelNeverLost ==
    /\ [][\A r \in Runs : (ui_cancel /\ Uncollected(r)) => ui_cancel']_vars
    /\ \A r \in Runs : (ui_cancel /\ Uncollected(r)) ~> StoppedCollecting(r)

TerminalKinds == {"result_all", "fatal"}
QueuedAt(r, kinds) ==
    {i \in 1 .. Len(ui_queue) : ui_queue[i].run = r /\ ui_queue[i].kind \in kinds}

\* C27: every started run ends by delivering exactly one terminal event
\* (result_all or fatal), and delivers it after all of its progress events:
\* nothing of the run follows its terminal event in the queue, no progress
\* is reported once the worker has put it, and at most one is ever put.
C27_OneTerminalEventLast ==
    /\ [](\A r \in Runs :
            /\ Len(delivered[r]) + Cardinality(QueuedAt(r, TerminalKinds)) <= 1
            /\ (mp_pc[r] = "finished") =
                   (Len(delivered[r]) + Cardinality(QueuedAt(r, TerminalKinds)) = 1)
            /\ \A i \in QueuedAt(r, TerminalKinds) :
                   \A j \in QueuedAt(r, {"progress", "log"}) : j < i
            /\ delivered[r] # <<>> => QueuedAt(r, {"progress", "log"}) = {})
    /\ [][\A r \in Runs : mp_pc[r] = "finished" =>
              /\ mp_pc'[r] = "finished"
              /\ progress_log'[r] = progress_log[r]]_vars
    /\ \A r \in Runs : (mp_pc[r] # "none") ~> (Len(delivered[r]) = 1)

\* Both runs have delivered, one its hits after a cancellation that it
\* observed, the other the fatal condition.
C27_Witness ==
    \E r, q \in Runs :
        /\ delivered[r] = <<"result_all">> /\ cancel_event[r]
        /\ progress_log[r] # <<>>
        /\ delivered[q] = <<"fatal">>

====
